---- MODULE Spec2Model ----
(***************************************************************************)
(* Resumable paginated fetch of the PSA rankings scraper.                  *)
(*                                                                         *)
(* The module models get_rankings and the checkpoint functions it uses     *)
(* (save_checkpoint, load_checkpoint, clear_checkpoint) as found in        *)
(*   src/src/psa_squash_rankings/api_scraper.py   (snapshot "package")     *)
(*   src/api_scraper.py                           (snapshot "flat")        *)
(* The two snapshots differ only in how a page response is read            *)
(* (ReadResponse below); everything else is line for line the same.        *)
(*                                                                         *)
(* Its callers, scrape_gender of src/run_scraper.py and main of            *)
(* src/src/psa_squash_rankings/cli.py, with the HTML scraper they fall     *)
(* back on, are modelled in the section on the callers; the loops over the *)
(* genders of run_scraper.py main and cli.py main in the section on the    *)
(* command-line runs.  parse_measure and parse_api_player of               *)
(* src/src/psa_squash_rankings/data_parser.py, validate_api_schema of      *)
(* src/validator.py and the row loop of html_scraper.py are modelled as    *)
(* functions, applied on their own to bounded sets of inputs.              *)
(*                                                                         *)
(* One get_rankings call runs at a time (the program is single-threaded).  *)
(* The position of the call is pc:                                         *)
(*   "idle"     no call made yet                                           *)
(*   "loaded"   a direct call of load_checkpoint returned                  *)
(*   "cleared"  a direct call of clear_checkpoint returned                 *)
(*   "cleared_again"  the same, right after another one for the same key   *)
(*   "loop"     top of the while loop, before the page-cap test            *)
(*   "save"     page parsed and appended, about to call save_checkpoint    *)
(*   "dump"     inside save_checkpoint: open(file, "w") has truncated the  *)
(*              file, json.dump has not completed                          *)
(*   "decide"   save_checkpoint returned, before the stop tests            *)
(*   "clear"    loop left by break, about to call clear_checkpoint         *)
(*   "returned" the call returned all_players                              *)
(*   "raised"   the call ended with an exception                           *)
(***************************************************************************)
EXTENDS Integers, Sequences, FiniteSets, TLC

\* ------------------------------------------------------------------ bounds
\* Highest page number the source is asked for in the model.
MaxPage == 2
\* The page_size argument used by the calls of the model.
PageSize == 2

\* ------------------------------------------------------- program constants
Genders == {"male", "female"}

\* Optional[int]: None is the empty sequence, the integer n is <<n>>.
None == <<>>
Some(n) == <<n>>

Snapshots == {"package", "flat"}

\* ------------------------------------------------------------------- state
VARIABLES
    snapshot,          \* which snapshot of api_scraper.py is running
    checkpoint_file,   \* gender -> content of CHECKPOINT_DIR/<gender>_checkpoint.json
    source,            \* gender -> responses of the pages 1..n of the endpoint that are
                       \* fixed: those a stored checkpoint or the running call rests on
    pc,                \* position of the current get_rankings call
    gender,            \* argument of the current call
    page_size,         \* argument of the current call
    max_pages,         \* argument of the current call (None or Some(n))
    resume,            \* argument of the current call
    checkpoint,        \* local checkpoint: what load_checkpoint returned (None if not called)
    start_page,        \* local start_page
    page,              \* local page
    all_players,       \* local all_players
    raw_data,          \* response of the last request (None before the first)
    has_more,          \* local has_more of the last page read
    parsed_players,    \* local parsed_players of the last page parsed
    requested,         \* page numbers passed to session.get in this call, in order
    result,            \* value returned by the call (meaningful when pc = "returned")
    error,             \* exception that ended the call (meaningful when pc = "raised")
    clear_error,       \* clear_checkpoint logged "Failed to clear checkpoint" in this call
    prev,              \* history: how the call before the current one ended
    caller,            \* who called get_rankings: "none" (a direct call), "scrape_gender"
                       \* (run_scraper.py) or "main" (cli.py, one turn of its loop)
    stage,             \* position of that caller
    html_requested,    \* the caller's run made the request of scrape_rankings_html
    html_error,        \* exception raised by scrape_rankings_html in this run ("none" if none)
    scraped,           \* records the caller holds (its local data / result): returned
                       \* by scrape_gender, or handed to export_to_csv by main
    is_fallback,       \* second component of the value returned by scrape_gender
    message,           \* message of the exception raised by scrape_gender, as the
                       \* sequence of the parts of its f-string
    exported,          \* CSV files written by main in this run
    session_log,       \* what get_rankings did to its requests.Session, in order:
                       \* "open" (line 145), "close" (line 251)
    html_log,          \* the same for the session of scrape_rankings_html, with the
                       \* request on it: "open", "get", "close"
    argument,          \* argument of the parser function applied last (None before)
    outcome,           \* what that application returned or raised (None before)
    program,           \* entry point of the command-line run: "none", "run_scraper"
                       \* (run_scraper.py main) or "cli" (cli.py main)
    todo,              \* genders of the run still to be processed, the current one first
    success_count,     \* local success_count of main
    failure_count,     \* local failure_count of main
    fallback_count,    \* local fallback_count of main (run_scraper.py)
    turns,             \* the turns of the run that ended: gender and path taken
    exit_code,         \* exit code of the run (None while it runs)
    api_cycle,         \* position of USER_AGENT_CYCLE of api_scraper.py: index of the
                       \* entry of USER_AGENTS that next() returns next
    html_cycle,        \* the same for USER_AGENT_CYCLE of html_scraper.py
    sent               \* the requests sent by the functions called on their own, in
                       \* order: the function and the User-Agent header of each

vars == <<snapshot, checkpoint_file, source, pc, gender, page_size, max_pages,
          resume, checkpoint, start_page, page, all_players, raw_data, has_more,
          parsed_players, requested, result, error, clear_error, prev,
          caller, stage, html_requested, html_error, scraped, is_fallback, message,
          exported, session_log, html_log, argument, outcome, program, todo,
          success_count, failure_count, fallback_count, turns, exit_code,
          api_cycle, html_cycle, sent>>

\* The variables of the parser functions applied on their own, and those of
\* a command-line run.
applied == <<argument, outcome>>
cmdline == <<program, todo, success_count, failure_count, fallback_count, turns,
            exit_code>>
\* The variables of the User-Agent rotation followed on its own.
agents == <<api_cycle, html_cycle, sent>>
others == <<applied, cmdline, agents>>

coordinator == <<caller, stage, html_requested, html_error, scraped, is_fallback,
                 message, exported>>

callArgs == <<gender, page_size, max_pages, resume>>
locals == <<checkpoint, start_page, page, all_players, raw_data, has_more, parsed_players>>

\* ------------------------------------------------------- checkpoint files
\* Content of a checkpoint file.  "absent": the file does not exist;
\* "empty": the file exists with no byte in it (just truncated by open "w");
\* "partial": a proper prefix of a JSON document; "full": a complete document.
Absent == [kind |-> "absent"]
Empty == [kind |-> "empty"]
Partial == [kind |-> "partial"]

\* Variant: one file for every gender.
checkpoint_path_Mutant(g) == "male"

\* Lines 39, 66, 90: CHECKPOINT_DIR / f"{gender}_checkpoint.json", the slot of
\* the gender.
checkpoint_path(g) == g

\* Variant: the page after the one just completed is recorded.
CheckpointData_Mutant(g, p, data) ==
    [gender |-> g, last_page |-> p + 1, total_players |-> Len(data), players |-> data]

\* Variant: the count recorded is one more than the number of records.
CheckpointData_Miscounted(g, p, data) ==
    [gender |-> g, last_page |-> p, total_players |-> Len(data) + 1, players |-> data]

\* checkpoint_data of save_checkpoint (lines 41-46).
CheckpointData(g, p, data) ==
    [gender |-> g, last_page |-> p, total_players |-> Len(data), players |-> data]

\* JSON documents.  A number and a string are kept apart by their kind, an
\* array holds its items in order, an object maps its keys to documents.
JNum(n) == [json |-> "number", lit |-> n]
JStr(s) == [json |-> "string", lit |-> s]
JArr(items) == [json |-> "array", items |-> items]
JObj(members) == [json |-> "object", members |-> members]

\* json.dump of a player record: 'rank' is an int, 'source' a str.
JsonDumpPlayer(rec) == JObj([rank |-> JNum(rec.rank), source |-> JStr(rec.source)])

\* json.dump of checkpoint_data (line 50).
JsonDump(d) ==
    JObj([gender |-> JStr(d.gender),
          last_page |-> JNum(d.last_page),
          total_players |-> JNum(d.total_players),
          players |-> JArr([i \in 1..Len(d.players) |-> JsonDumpPlayer(d.players[i])])])

\* json.load (line 71): a number gives an int, a string a str, an array a
\* list and an object a dict with the same keys.
RECURSIVE JsonLoad(_)
JsonLoad(j) ==
    CASE j.json = "number" -> j.lit
      [] j.json = "string" -> j.lit
      [] j.json = "array" -> [i \in 1..Len(j.items) |-> JsonLoad(j.items[i])]
      [] j.json = "object" -> [k \in DOMAIN j.members |-> JsonLoad(j.members[k])]

\* A file holding the complete document of checkpoint_data d.
Written(d) == [kind |-> "full", doc |-> JsonDump(d)]

\* Line 73: the log message of load_checkpoint reads data['total_players']
\* and data['last_page']; on a value that is not a dict, or a dict lacking one
\* of the two, the subscript raises.
LogKeys == {"total_players", "last_page"}

\* load_checkpoint: None when the file does not exist (line 68) and when
\* json.load or the log message raises (lines 76-78), the loaded dictionary
\* otherwise.
load_checkpoint(g) ==
    LET f == checkpoint_file[checkpoint_path(g)]
    IN  IF f.kind # "full" THEN None
        ELSE IF f.doc.json # "object" THEN None
        ELSE IF ~(LogKeys \subseteq DOMAIN f.doc.members) THEN None
        ELSE Some(JsonLoad(f.doc))

\* ------------------------------------------------------------- the source
\* A page response.  type: what response.json() yields ("dict", "list",
\* "other" for a value that is neither, "badjson" when json() raises);
\* key: the key of a dict that carries the item list ("none": neither
\* 'players' nor 'data'); hasMore: value of the 'hasMore' key or "absent";
\* n: number of items; bad: position of an item lacking a required field
\* (0: every item is complete).
Keys == {"players", "data", "none"}
Flags == {"true", "false", "absent"}

\* Item counts of a page for page size ps: none, one, a full page.
Counts(ps) == {0, 1, ps}

Response(t, k, h, n, b) == [type |-> t, key |-> k, hasMore |-> h, n |-> n, bad |-> b]

\* The responses the model draws from.
\*  - {'players': [..n items..], 'hasMore': true/false} for every count;
\*  - a full page whose last item lacks a required field;
\*  - a full page without the 'hasMore' key;
\*  - a full page under 'data' instead of 'players', hasMore true and false;
\*  - a dict with neither item key, with and without 'hasMore';
\*  - a bare list for every count;
\*  - a JSON value that is neither dict nor list, and a body that is not JSON.
Responses(ps) ==
    {Response("dict", "players", h, n, 0) : h \in {"true", "false"}, n \in Counts(ps)}
    \cup {Response("dict", "players", "true", ps, ps)}
    \cup {Response("dict", "players", "absent", ps, 0)}
    \cup {Response("dict", "data", h, ps, 0) : h \in {"true", "false"}}
    \cup {Response("dict", "none", h, 0, 0) : h \in {"true", "absent"}}
    \cup {Response("list", "none", "absent", n, 0) : n \in Counts(ps)}
    \cup {Response(t, "none", "absent", 0, 0) : t \in {"other", "badjson"}}

\* Items of page p: item i of the page is the player ranked (p-1)*ps + i.
Items(r, p, ps) ==
    [i \in 1..r.n |-> [rank |-> (p - 1) * ps + i, complete |-> (i # r.bad)]]

\* Exceptions that end a call.  The three of lines 170-178 (session.get or
\* raise_for_status raises); the ValueError of lines 180-212 (the body is not
\* JSON or has not the expected shape); the ValueError of validate_api_schema
\* (line 218); the OSError of save_checkpoint (lines 52-54); an interrupt.
\* KeyError: line 133 reads checkpoint["players"] of a loaded checkpoint that
\* has no such key (the statement is outside the try of line 153).
RequestErrors == {"Timeout", "HTTPError", "ConnectionError"}
InitError == "KeyError"
MalformedError == "ValueError: response"
SchemaError == "ValueError: schema"
WriteError == "OSError"
Interrupted == "KeyboardInterrupt"

\* ------------------------------------------------------------ parse
\* parse_api_player: a record tagged source 'api', or a ValueError when
\* validate_api_schema finds a required field missing.
\* Variant: the record is tagged as the HTML scraper tags its own.
parse_api_player_Mutant(item) == [rank |-> item.rank, source |-> "html"]

parse_api_player(item) == [rank |-> item.rank, source |-> "api"]

\* Variant: an item that does not parse is not noticed.
ParseFails_Mutant(items) == FALSE

\* Line 218: the list comprehension raises when parse_api_player raises for
\* one of the items.
ParseFails(items) == \E i \in 1..Len(items) : ~items[i].complete

ParsePage(items) == [i \in 1..Len(items) |-> parse_api_player(items[i])]

\* ---------------------------------------------------------- reading a page
\* Reading of raw_data into players_data / has_more.
\* Result: [err |-> TRUE] when the code raises, else the two locals.
Raise == [err |-> TRUE, n |-> 0, has_more |-> FALSE]
Read(n, hm) == [err |-> FALSE, n |-> n, has_more |-> hm]

\* package snapshot, lines 180-212.
ReadResponsePackage(r, ps) ==
    CASE r.type = "badjson" -> Raise
      [] r.type = "dict" ->
            IF r.key # "players" THEN Raise
            ELSE IF r.hasMore = "absent" THEN Raise
            ELSE Read(r.n, r.hasMore = "true")
      [] r.type = "list" -> Read(r.n, FALSE)
      [] OTHER -> Raise

\* flat snapshot, lines 167-177.
ReadResponseFlat(r, ps) ==
    CASE r.type = "badjson" -> Raise
      [] r.type = "dict" ->
            Read(IF r.key = "none" THEN 0 ELSE r.n, r.hasMore = "true")
      [] r.type = "list" -> Read(r.n, r.n = ps)
      [] OTHER -> Raise

ReadResponse(snap, r, ps) ==
    IF snap = "package" THEN ReadResponsePackage(r, ps) ELSE ReadResponseFlat(r, ps)

\* ---------------------------------------------------------------- history
\* prev records, while a call runs, how it relates to the call before it:
\*  "failed"      the call before raised while fetching a page (requesting,
\*                reading, parsing or saving it), and this call is made with
\*                resume=True for the same gender, page_size and max_pages;
\*  "failed_own"  the same, and the call before had started at page 1 and
\*                left nothing in the slot that is older than itself;
\*  "none"        otherwise.
\* It is recorded under SpecHistory only; under Spec it stays "none".
FetchFailures == RequestErrors \cup {MalformedError, SchemaError, WriteError}

Ended(g, ps, mp, r) ==
    IF /\ r
       /\ pc = "raised" /\ error \in FetchFailures
       /\ g = gender /\ ps = page_size /\ mp = max_pages
      THEN IF start_page = 1 /\ (page > start_page \/ load_checkpoint(g) = None)
             THEN "failed_own"
             ELSE "failed"
      ELSE "none"

\* ------------------------------------------------------------------- Init
\* The state of the modules after import, before any call.
Constructed ==
    /\ snapshot \in Snapshots
    /\ checkpoint_file = [g \in Genders |-> Absent]
    /\ source = [g \in Genders |-> <<>>]
    /\ pc = "idle"
    /\ gender = "male"
    /\ page_size = PageSize
    /\ max_pages = None
    /\ resume = TRUE
    /\ checkpoint = None
    /\ start_page = 1
    /\ page = 1
    /\ all_players = <<>>
    /\ raw_data = None
    /\ has_more = FALSE
    /\ parsed_players = <<>>
    /\ requested = <<>>
    /\ result = <<>>
    /\ error = "none"
    /\ clear_error = FALSE
    /\ prev = "none"
    /\ caller = "none"
    /\ stage = "idle"
    /\ html_requested = FALSE
    /\ html_error = "none"
    /\ scraped = <<>>
    /\ is_fallback = FALSE
    /\ message = <<>>
    /\ exported = {}
    /\ session_log = <<>>
    /\ html_log = <<>>
    /\ api_cycle = 1
    /\ html_cycle = 1
    /\ sent = <<>>

\* No parser function has been applied on its own.
NotApplied ==
    /\ argument = None
    /\ outcome = None

\* No command-line run is in progress.
NotLaunched ==
    /\ program = "none"
    /\ todo = <<>>
    /\ success_count = 0
    /\ failure_count = 0
    /\ fallback_count = 0
    /\ turns = <<>>
    /\ exit_code = None

Init == Constructed /\ NotApplied /\ NotLaunched

\* ----------------------------------------------------- get_rankings: INIT
\* Lines 127-151 (flat 114-138): all_players and start_page from the
\* checkpoint when resume is set and load_checkpoint returns a dictionary.
\* Variant: the checkpoint's players are dropped.
SeedPlayers_Mutant(r, ckpt) == <<>>

SeedPlayers(r, ckpt) == IF r /\ ckpt # None THEN ckpt[1].players ELSE <<>>

\* Variant: the call starts again at the checkpoint's last page.
StartPage_Mutant(r, ckpt) == IF r /\ ckpt # None THEN ckpt[1].last_page ELSE 1

StartPage(r, ckpt) == IF r /\ ckpt # None THEN ckpt[1].last_page + 1 ELSE 1

\* Between two calls the endpoint keeps the pages a stored checkpoint covers
\* (the pages of the source do not change under a checkpoint); every other
\* page may have changed by the time it is requested again.
Kept(h) ==
    IF load_checkpoint(h) # None
      THEN LET n == load_checkpoint(h)[1].last_page
           IN  SubSeq(source[h], 1, IF n < Len(source[h]) THEN n ELSE Len(source[h]))
      ELSE <<>>

MaxPagesValues == {None} \cup {Some(n) : n \in 0..MaxPage}

\* The positions at which no call is in progress and get_rankings can be called.
Callable == {"idle", "returned", "raised", "loaded", "cleared", "cleared_again"}

\* Line 133 on a loaded checkpoint without the key 'players'.
LacksPlayers(r, ckpt) == r /\ ckpt # None /\ "players" \notin DOMAIN ckpt[1]

get_rankings(g, ps, mp, r) ==
    /\ pc \in Callable
    /\ gender' = g
    /\ page_size' = ps
    /\ max_pages' = mp
    /\ resume' = r
    /\ checkpoint' = (IF r THEN load_checkpoint(g) ELSE None)
    /\ IF LacksPlayers(r, load_checkpoint(g))
         THEN /\ pc' = "raised"
              /\ error' = InitError
              /\ session_log' = <<>>
              /\ all_players' = <<>>
              /\ start_page' = 1
              /\ page' = 1
         ELSE /\ pc' = "loop"
              /\ error' = "none"
              /\ session_log' = <<"open">>
              /\ all_players' = SeedPlayers(r, load_checkpoint(g))
              /\ start_page' = StartPage(r, load_checkpoint(g))
              /\ page' = StartPage(r, load_checkpoint(g))
    /\ raw_data' = None
    /\ has_more' = FALSE
    /\ parsed_players' = <<>>
    /\ requested' = <<>>
    /\ result' = <<>>
    /\ clear_error' = FALSE
    /\ source' = [h \in Genders |-> Kept(h)]
    /\ UNCHANGED <<snapshot, checkpoint_file>>

\* ------------------------------------------------ get_rankings: the loop
\* Line 155 (flat 142): `if max_pages and page > max_pages`.  An Optional[int]
\* is true when it is neither None nor 0.
\* Variant: the loop stops one page later.
CapExceeded_Mutant(mp, p) == mp # None /\ mp[1] # 0 /\ p > mp[1] + 1

CapExceeded(mp, p) == mp # None /\ mp[1] # 0 /\ p > mp[1]

\* The exception path, lines 240-252: the error is logged, the session is
\* closed and the exception is raised again.  The path does not touch the
\* checkpoint files: they stay as the failing statement left them (files).
\* Variant: the exception path removes the checkpoint of the gender.
RaiseError_Mutant(e, files) ==
    /\ pc' = "raised"
    /\ error' = e
    /\ result' = <<>>
    /\ checkpoint_file' = [files EXCEPT ![gender] = Absent]

RaiseError(e, files) ==
    /\ pc' = "raised"
    /\ error' = e
    /\ result' = <<>>
    /\ checkpoint_file' = files

\* Variant: the session is left open.
Finally_Mutant == session_log' = session_log

\* Lines 250-252: the finally clause of the try of line 153 closes the
\* session, however the try is left.
Finally == session_log' = Append(session_log, "close")

\* An exception of save_checkpoint leaves the try of get_rankings when it
\* was called from there (line 224); a direct call has no session.
LeaveTry == IF session_log = <<>> THEN session_log' = session_log ELSE Finally

\* Variant: at the cap the loop goes round again instead of being left.
CapReached_Mutant ==
    /\ pc = "loop"
    /\ CapExceeded(max_pages, page)
    /\ UNCHANGED vars

\* Lines 155-157: the cap is logged and the loop is left by break.
CapReached ==
    /\ pc = "loop"
    /\ CapExceeded(max_pages, page)
    /\ pc' = "clear"
    /\ Finally
    /\ UNCHANGED <<others, html_log, coordinator, snapshot, checkpoint_file, source, callArgs, locals,
                   requested, result, error, clear_error, prev>>

\* session.get(url) raises, or raise_for_status raises (lines 167-178).
RequestFails ==
    /\ pc = "loop"
    /\ ~CapExceeded(max_pages, page)
    /\ \E e \in RequestErrors : RaiseError(e, checkpoint_file)
    /\ requested' = Append(requested, page)
    /\ Finally
    /\ UNCHANGED <<others, html_log, coordinator, snapshot, source, callArgs, locals, clear_error, prev>>

\* The responses the endpoint can give for page p: the fixed one when the page
\* is among the fixed pages, any response otherwise.
Serve(g, p, ps) ==
    IF p <= Len(source[g]) THEN {source[g][p]} ELSE Responses(ps)

Served(g, p, r) ==
    IF p <= Len(source[g]) THEN source
    ELSE [source EXCEPT ![g] = Append(source[g], r)]

\* Line 214 (flat 179): `if not players_data`.
\* Variant: an empty page is not tested for.
NoData_Mutant(n) == FALSE

NoData(n) == n = 0

\* Variant: the records of the page replace those accumulated before.
Extended_Mutant(all, parsed) == parsed

\* Line 219: `all_players.extend(parsed_players)`.
Extended(all, parsed) == all \o parsed

\* A response arrives (line 168 succeeds) and is handled up to line 223:
\* read into players_data / has_more, tested for emptiness, parsed, appended.
Respond(r) ==
    LET rd == ReadResponse(snapshot, r, page_size)
        items == Items([r EXCEPT !.n = rd.n], page, page_size)
    IN  /\ requested' = Append(requested, page)
        /\ source' = Served(gender, page, r)
        /\ raw_data' = Some(r)
        /\ IF rd.err
             THEN /\ RaiseError(MalformedError, checkpoint_file)
                  /\ Finally
                  /\ UNCHANGED <<all_players, has_more, parsed_players>>
           ELSE IF NoData(rd.n)
             THEN /\ pc' = "clear"
                  /\ Finally
                  /\ has_more' = rd.has_more
                  /\ UNCHANGED <<checkpoint_file, all_players, parsed_players,
                                 result, error>>
           ELSE IF ParseFails(items)
             THEN /\ RaiseError(SchemaError, checkpoint_file)
                  /\ Finally
                  /\ has_more' = rd.has_more
                  /\ UNCHANGED <<all_players, parsed_players>>
           ELSE /\ pc' = "save"
                /\ has_more' = rd.has_more
                /\ parsed_players' = ParsePage(items)
                /\ all_players' = Extended(all_players, ParsePage(items))
                /\ UNCHANGED <<checkpoint_file, result, error, session_log>>
        /\ UNCHANGED <<others, html_log, coordinator, snapshot, callArgs, checkpoint,
                       start_page, page,
                       clear_error, prev>>

CanRequest ==
    /\ pc = "loop"
    /\ ~CapExceeded(max_pages, page)
    /\ page <= MaxPage
    /\ page <= Len(source[gender]) + 1

\* The four outcomes of a response, as separate actions.
MalformedResponse ==
    /\ CanRequest
    /\ \E r \in Serve(gender, page, page_size) :
          /\ ReadResponse(snapshot, r, page_size).err
          /\ Respond(r)

EmptyPage ==
    /\ CanRequest
    /\ \E r \in Serve(gender, page, page_size) :
          /\ ~ReadResponse(snapshot, r, page_size).err
          /\ ReadResponse(snapshot, r, page_size).n = 0
          /\ Respond(r)

ItemRejected ==
    /\ CanRequest
    /\ \E r \in Serve(gender, page, page_size) :
          /\ ~ReadResponse(snapshot, r, page_size).err
          /\ ReadResponse(snapshot, r, page_size).n > 0
          /\ r.bad # 0
          /\ Respond(r)

PageParsed ==
    /\ CanRequest
    /\ \E r \in Serve(gender, page, page_size) :
          /\ ~ReadResponse(snapshot, r, page_size).err
          /\ ReadResponse(snapshot, r, page_size).n > 0
          /\ r.bad = 0
          /\ Respond(r)

\* ------------------------------------------------------- save_checkpoint
\* Line 49: open(checkpoint_file, "w") creates or truncates the file.
SaveOpen ==
    /\ pc = "save"
    /\ pc' = "dump"
    /\ checkpoint_file' = [checkpoint_file EXCEPT ![checkpoint_path(gender)] = Empty]
    /\ UNCHANGED <<others, html_log, session_log, coordinator, snapshot, source, callArgs, locals, requested, result, error, clear_error, prev>>

\* Variant: the failure of line 49 is logged and not raised again.
SaveOpenFails_Mutant ==
    /\ pc = "save"
    /\ pc' = "decide"
    /\ UNCHANGED <<others, html_log, session_log, coordinator, snapshot, checkpoint_file, source, callArgs, locals, requested,
                   result, error, clear_error, prev>>

\* Line 49 raises (the directory is missing or not writable): the file is as
\* it was; lines 52-54 log and raise again, which ends get_rankings.
SaveOpenFails ==
    /\ pc = "save"
    /\ RaiseError(WriteError, checkpoint_file)
    /\ LeaveTry
    /\ UNCHANGED <<others, html_log, coordinator, snapshot, source, callArgs, locals, requested, clear_error, prev>>

\* Variant: the checkpoint carries the records of the earlier pages only.
SaveDump_Mutant ==
    /\ pc = "dump"
    /\ pc' = "decide"
    /\ checkpoint_file' =
          [checkpoint_file EXCEPT ![checkpoint_path(gender)] =
              Written(CheckpointData(gender, page,
                         SubSeq(all_players, 1, Len(all_players) - Len(parsed_players))))]
    /\ UNCHANGED <<others, html_log, session_log, coordinator, snapshot, source, callArgs, locals, requested, result,
                   error, clear_error, prev>>

\* Line 50: json.dump writes the whole document and the file is closed.
SaveDump ==
    /\ pc = "dump"
    /\ pc' = "decide"
    /\ checkpoint_file' =
          [checkpoint_file EXCEPT ![checkpoint_path(gender)] =
                                     Written(CheckpointData(gender, page, all_players))]
    /\ UNCHANGED <<others, html_log, session_log, coordinator, snapshot, source, callArgs, locals, requested, result, error, clear_error, prev>>

\* Line 50 raises part-way (the disk is full): what was written so far stays.
SaveDumpFails ==
    /\ pc = "dump"
    /\ \E c \in {Empty, Partial} :
          RaiseError(WriteError, [checkpoint_file EXCEPT ![checkpoint_path(gender)] = c])
    /\ LeaveTry
    /\ UNCHANGED <<others, html_log, coordinator, snapshot, source, callArgs, locals, requested, clear_error, prev>>

\* ------------------------------------------------- the stop tests, 227-238
\* Variant: has_more is not tested.
StopsOnFlag_Mutant(hm) == FALSE

\* Line 227: `if not has_more`.
StopsOnFlag(hm) == ~hm

\* Variant: the length of the page is not tested.
StopsOnPartial_Mutant(n, ps) == FALSE

\* Line 231: `if len(parsed_players) < page_size`.
StopsOnPartial(n, ps) == n < ps

\* Variant: the page number is not raised.
NextPage_Mutant(p) == p

\* Line 238: `page += 1`.
NextPage(p) == p + 1

Decide ==
    /\ pc = "decide"
    /\ IF StopsOnFlag(has_more)
         THEN pc' = "clear" /\ page' = page /\ Finally
       ELSE IF StopsOnPartial(Len(parsed_players), page_size)
         THEN pc' = "clear" /\ page' = page /\ Finally
       ELSE pc' = "loop" /\ page' = NextPage(page) /\ session_log' = session_log
    /\ UNCHANGED <<others, html_log, coordinator, snapshot, checkpoint_file, source, callArgs, checkpoint,
                   start_page, all_players, raw_data, has_more, parsed_players,
                   requested, result, error, clear_error, prev>>

\* ------------------------------------------------------ clear_checkpoint
\* Lines 84-96, then the return of line 257.  unlink removes the file; when
\* unlink raises, the error is logged and the file stays.
\* Variant: the file is never removed.
clear_checkpoint_Mutant(g, unlinked) == checkpoint_file

\* Variant: the file is emptied, not removed.
clear_checkpoint_Truncates(g, unlinked) ==
    [checkpoint_file EXCEPT ![checkpoint_path(g)] = Empty]

clear_checkpoint(g, unlinked) ==
    IF checkpoint_file[checkpoint_path(g)].kind # "absent" /\ unlinked
      THEN [checkpoint_file EXCEPT ![checkpoint_path(g)] = Absent]
      ELSE checkpoint_file

Return ==
    /\ pc = "clear"
    /\ \E unlinked \in BOOLEAN :
          /\ checkpoint_file' = clear_checkpoint(gender, unlinked)
          /\ clear_error' = (checkpoint_file[checkpoint_path(gender)].kind # "absent"
                               /\ ~unlinked)
    /\ pc' = "returned"
    /\ result' = all_players
    /\ UNCHANGED <<others, html_log, session_log, coordinator, snapshot, source, callArgs, locals, requested, error, prev>>

\* -------------------------------------------------------------- interrupt
\* The process is interrupted or killed during the call (KeyboardInterrupt is
\* not an Exception, so line 240 does not catch it): the call ends where it
\* is and the checkpoint file stays as it is at that moment.
Interrupt ==
    /\ pc \in {"loop", "save", "dump", "decide", "clear"}
    /\ RaiseError(Interrupted, checkpoint_file)
    /\ IF pc = "clear" THEN session_log' = session_log ELSE Finally
    /\ UNCHANGED <<others, html_log, coordinator, snapshot, source, callArgs, locals, requested, clear_error, prev>>

\* A caller invokes get_rankings.  The calls of one behaviour are all for the
\* same gender, whichever it is.
Invoke ==
    \E g \in Genders, mp \in MaxPagesValues, r \in BOOLEAN :
        /\ pc = "idle" \/ g = gender
        /\ get_rankings(g, PageSize, mp, r)
        /\ UNCHANGED <<prev, coordinator, others, html_log>>

\* The same, with the history of the call before recorded.
InvokeRecorded ==
    \E g \in Genders, mp \in MaxPagesValues, r \in BOOLEAN :
        /\ pc = "idle" \/ g = gender
        /\ get_rankings(g, PageSize, mp, r)
        /\ prev' = Ended(g, PageSize, mp, r)
        /\ UNCHANGED <<coordinator, others, html_log>>

\* The steps of a call in progress.
Step ==
    \/ CapReached
    \/ RequestFails
    \/ MalformedResponse
    \/ EmptyPage
    \/ ItemRejected
    \/ PageParsed
    \/ SaveOpen
    \/ SaveOpenFails
    \/ SaveDump
    \/ SaveDumpFails
    \/ Decide
    \/ Return
    \/ Interrupt

Next == Invoke \/ Step

NextHistory == InvokeRecorded \/ Step

Spec == Init /\ [][Next]_vars

SpecHistory == Init /\ [][NextHistory]_vars

\* ------------------------------------------- the checkpoint store, alone
\* The three checkpoint functions called directly (as tests/test_checkpoints.py
\* does), on slots that hold any content at the start.

\* A player record as parse_api_player builds it, for the player ranked n.
Player(n) == parse_api_player([rank |-> n, complete |-> TRUE])

\* The record sequences handed to save_checkpoint.
RecordSeqs == {<<>>, <<Player(1)>>, <<Player(2), Player(1)>>}

\* The document of a checkpoint without its key k.
Lacking(d, k) ==
    JObj([x \in (DOMAIN JsonDump(d).members) \ {k} |-> JsonDump(d).members[x]])

CheckpointKeys == {"last_page", "total_players", "players"}

\* What a slot can hold at the start: nothing; a file that does not parse
\* (empty, cut short); a JSON value that is not an object; a checkpoint
\* lacking one of its keys; a checkpoint written by save_checkpoint.
SlotContents(g) ==
    {Absent, Empty, Partial}
    \cup {[kind |-> "full", doc |-> JArr(<<>>)]}
    \cup {[kind |-> "full", doc |-> Lacking(CheckpointData(g, 1, <<Player(1)>>), k)] :
             k \in CheckpointKeys}
    \cup {Written(CheckpointData(g, 1, <<Player(1)>>))}

\* The state before the first call when the slots hold one of files and the
\* fixed pages of the source are src.
StartWith(files, src) ==
    /\ snapshot \in Snapshots
    /\ checkpoint_file \in files
    /\ source = src
    /\ pc = "idle"
    /\ gender = "male"
    /\ page_size = PageSize
    /\ max_pages = None
    /\ resume = TRUE
    /\ checkpoint = None
    /\ start_page = 1
    /\ page = 1
    /\ all_players = <<>>
    /\ raw_data = None
    /\ has_more = FALSE
    /\ parsed_players = <<>>
    /\ requested = <<>>
    /\ result = <<>>
    /\ error = "none"
    /\ clear_error = FALSE
    /\ prev = "none"
    /\ caller = "none"
    /\ stage = "idle"
    /\ html_requested = FALSE
    /\ html_error = "none"
    /\ scraped = <<>>
    /\ is_fallback = FALSE
    /\ message = <<>>
    /\ exported = {}
    /\ session_log = <<>>
    /\ html_log = <<>>
    /\ api_cycle = 1
    /\ html_cycle = 1
    /\ sent = <<>>
    /\ argument = None
    /\ outcome = None
    /\ program = "none"
    /\ todo = <<>>
    /\ success_count = 0
    /\ failure_count = 0
    /\ fallback_count = 0
    /\ turns = <<>>
    /\ exit_code = None

InitStore ==
    StartWith({f \in [Genders -> UNION {SlotContents(g) : g \in Genders}] :
                  \A g \in Genders : f[g] \in SlotContents(g)},
              [g \in Genders |-> <<>>])

\* The positions at which a checkpoint function can be called directly:
\* no call is in progress, or save_checkpoint has just returned ("decide").
StoreIdle == Callable \cup {"decide"}

\* save_checkpoint(g, p, data) is entered (line 28); SaveOpen and SaveDump,
\* or their failures, follow.
CallSave ==
    /\ pc \in StoreIdle
    /\ \E g \in Genders, p \in 1..MaxPage, data \in RecordSeqs :
          /\ gender' = g
          /\ page' = p
          /\ all_players' = data
    /\ pc' = "save"
    /\ session_log' = <<>>
    /\ error' = "none"
    /\ UNCHANGED <<others, html_log, coordinator, snapshot, checkpoint_file, source, page_size, max_pages, resume,
                   checkpoint, start_page, raw_data, has_more, parsed_players,
                   requested, result, clear_error, prev>>

\* load_checkpoint(g) is called and returns (lines 57-81); the value returned
\* is kept in checkpoint.
CallLoad ==
    /\ pc \in StoreIdle
    /\ \E g \in Genders :
          /\ gender' = g
          /\ checkpoint' = load_checkpoint(g)
    /\ pc' = "loaded"
    /\ error' = "none"
    /\ UNCHANGED <<others, html_log, session_log, coordinator, snapshot, checkpoint_file, source, page_size, max_pages, resume,
                   start_page, page, all_players, raw_data, has_more, parsed_players,
                   requested, result, clear_error, prev>>

\* clear_checkpoint(g) is called and returns (lines 84-96).
CallClear ==
    /\ pc \in StoreIdle
    /\ \E g \in Genders, unlinked \in BOOLEAN :
          /\ gender' = g
          /\ checkpoint_file' = clear_checkpoint(g, unlinked)
          /\ clear_error' = (checkpoint_file[checkpoint_path(g)].kind # "absent" /\ ~unlinked)
          /\ pc' = (IF pc \in {"cleared", "cleared_again"} /\ g = gender
                     THEN "cleared_again" ELSE "cleared")
    /\ error' = "none"
    /\ UNCHANGED <<others, html_log, session_log, coordinator, snapshot, source, page_size, max_pages, resume, checkpoint,
                   start_page, page, all_players, raw_data, has_more, parsed_players,
                   requested, result, prev>>

NextStore ==
    \/ CallSave
    \/ SaveOpen
    \/ SaveOpenFails
    \/ SaveDump
    \/ SaveDumpFails
    \/ CallLoad
    \/ CallClear

SpecStore == InitStore /\ [][NextStore]_vars

\* ------------------------------------ get_rankings on slots that hold something
\* The calls of get_rankings when the slot of one gender holds, at the start,
\* any of the contents above, left there by an earlier process.  Page 1 of
\* the source of that gender is the page the stored checkpoint was taken from.
StoredPage == Response("dict", "players", "true", 1, 0)

InitSlots ==
    StartWith({[male |-> Absent, female |-> c] : c \in SlotContents("female")},
              [male |-> <<>>, female |-> <<StoredPage>>])

SpecSlots == InitSlots /\ [][Next]_vars

\* The same when the slot of female holds a checkpoint written by
\* save_checkpoint after page 1.
InitOther ==
    StartWith({[male |-> Absent,
                female |-> Written(CheckpointData("female", 1, <<Player(1)>>))]},
              [male |-> <<>>, female |-> <<StoredPage>>])

SpecOther == InitOther /\ [][Next]_vars

\* ------------------------------------- the callers: scrape_gender and main
\* run_scraper.py scrape_gender (lines 48-111) and one turn of the loop of
\* cli.py main (lines 80-116) call get_rankings and, when it fails, the HTML
\* scraper of src/src/psa_squash_rankings/html_scraper.py.  The position of
\* the caller is stage:
\*   "idle"         no caller started
\*   "api"          get_rankings is running or has just ended
\*   "html"         about to call scrape_rankings_html
\*   "export"       main: about to export_to_csv the records of get_rankings
\*   "html_export"  main: about to export_to_csv the records of the HTML page
\*   "returned"     scrape_gender returned (scraped, is_fallback)
\*   "raised"       scrape_gender raised its Exception (message)
\*   "exported"     main: the turn ended with success_count += 1
\*   "failed"       main: the turn ended with failure_count += 1
\*   "interrupted"  a KeyboardInterrupt left the caller

\* The variables of get_rankings and of the checkpoint files.
scraper == <<snapshot, checkpoint_file, source, pc, callArgs, locals, requested,
             result, error, clear_error, prev>>

\* The response to the request of the HTML page (html_scraper.py line 69-70):
\* a request error, a page without <table>, or a page whose table has rows.
HtmlPage(type, err, rows) == [type |-> type, err |-> err, rows |-> rows]

\* A <tr>: ok when it has four cells whose numbers parse (lines 102-115).
Row(n, ok) == [rank |-> n, ok |-> ok]

HtmlPages ==
    {HtmlPage("error", e, <<>>) : e \in RequestErrors}
    \cup {HtmlPage("notable", "none", <<>>)}
    \cup {HtmlPage("table", "none", rows) :
             rows \in {<<>>, <<Row(1, FALSE)>>, <<Row(1, TRUE)>>,
                       <<Row(1, TRUE), Row(2, FALSE)>>, <<Row(1, TRUE), Row(2, TRUE)>>}}

HtmlTableError == "ValueError: table"
HtmlRowsError == "ValueError: rows"

\* Lines 117-123: the record of a row, tagged source 'html'.
HtmlRecord(row) == [rank |-> row.rank, source |-> "html"]

\* Lines 100-125: the rows that parse, in order; the others are skipped.
HtmlRecords(rows) ==
    LET good == SelectSeq(rows, LAMBDA r : r.ok)
    IN  [i \in 1..Len(good) |-> HtmlRecord(good[i])]

\* scrape_rankings_html (lines 28-137): the exception raised, or the records.
scrape_rankings_html(html) ==
    CASE html.type = "error" -> [err |-> html.err, records |-> <<>>]
      [] html.type = "notable" -> [err |-> HtmlTableError, records |-> <<>>]
      [] html.type = "table" /\ html.rows = <<>> -> [err |-> HtmlRowsError, records |-> <<>>]
      [] OTHER -> [err |-> "none", records |-> HtmlRecords(html.rows)]

\* html_scraper.py lines 59, 69 and 135-137: the session is created, the one
\* request is made inside the try, and its finally clause closes the session
\* whether the function returns or raises.
HtmlSessionEvents(html) == <<"open", "get", "close">>

\* run_scraper.py line 84: `if gender == "male"`.
HasFallback(g) == g = "male"

\* run_scraper.py lines 109-111, the f-string in its parts.
NoFallbackMessage(g, api_error) ==
    <<"API scraper failed for ", g, " and no fallback available: ", api_error>>

\* Variant: the message names the last cause only.
BothFailedMessage_Mutant(g, api_error, html_err) ==
    <<"Both API and HTML scrapers failed for ", g, ". HTML error: ", html_err>>

\* run_scraper.py lines 101-104, the f-string in its parts.
BothFailedMessage(g, api_error, html_err) ==
    <<"Both API and HTML scrapers failed for ", g, ". API error: ", api_error,
      ". HTML error: ", html_err>>

\* cli.py lines 95 and 108: the names of the CSV files, f-strings in parts.
OutputFile(g) == <<"psa_rankings_", g, ".csv">>
FallbackFile(g) == <<"psa_rankings_", g, "_fallback.csv">>

\* exporter.py lines 14-62 when nothing raises: no file for an empty list
\* (lines 31-33), else the records written under the name.
export_to_csv(files, d, filename) ==
    IF d = <<>> THEN files ELSE files \cup {[name |-> filename, rows |-> d]}

\* The positions at which a caller can be started.
Finished == {"idle", "returned", "raised", "exported", "failed", "interrupted"}

\* A caller starts for gender g and calls get_rankings (run_scraper.py
\* lines 69-75, cli.py lines 87-93).  The runs of one behaviour are all for
\* the same gender, whichever it is.
Start(g, mp, r) ==
    /\ stage \in Finished
    /\ stage = "idle" \/ g = gender
    /\ get_rankings(g, PageSize, mp, r)
    /\ stage' = "api"
    /\ html_requested' = FALSE
    /\ html_error' = "none"
    /\ scraped' = <<>>
    /\ is_fallback' = FALSE
    /\ message' = <<>>
    /\ exported' = {}
    /\ html_log' = <<>>
    /\ UNCHANGED <<prev, others>>

scrape_gender ==
    \E g \in Genders, mp \in MaxPagesValues, r \in BOOLEAN :
        /\ Start(g, mp, r)
        /\ caller' = "scrape_gender"

main ==
    \E g \in Genders, mp \in MaxPagesValues, r \in BOOLEAN :
        /\ Start(g, mp, r)
        /\ caller' = "main"

\* run_scraper.py lines 76-79: `return data, False`.
ScrapeGenderReturns ==
    /\ caller = "scrape_gender" /\ stage = "api" /\ pc = "returned"
    /\ scraped' = result
    /\ is_fallback' = FALSE
    /\ stage' = "returned"
    /\ UNCHANGED <<others, html_log, session_log, scraper, caller, html_requested, html_error, message, exported>>

\* run_scraper.py lines 81-84 and 105-111: get_rankings raised an Exception;
\* for male the fallback follows, for female the Exception of line 109.
ScrapeGenderApiFails ==
    /\ caller = "scrape_gender" /\ stage = "api"
    /\ pc = "raised" /\ error # Interrupted
    /\ IF HasFallback(gender)
         THEN /\ stage' = "html"
              /\ message' = message
         ELSE /\ stage' = "raised"
              /\ message' = NoFallbackMessage(gender, error)
    /\ UNCHANGED <<others, html_log, session_log, scraper, caller, html_requested, html_error, scraped, is_fallback,
                   exported>>

\* run_scraper.py lines 92-104: scrape_rankings_html returns (`return data,
\* True`) or raises (the Exception of line 101).
ScrapeGenderFallback ==
    /\ caller = "scrape_gender" /\ stage = "html"
    /\ \E html \in HtmlPages :
          LET out == scrape_rankings_html(html)
          IN  /\ html_requested' = TRUE
              /\ html_log' = HtmlSessionEvents(html)
              /\ html_error' = out.err
              /\ IF out.err = "none"
                   THEN /\ scraped' = out.records
                        /\ is_fallback' = TRUE
                        /\ stage' = "returned"
                        /\ message' = message
                   ELSE /\ scraped' = <<>>
                        /\ is_fallback' = FALSE
                        /\ stage' = "raised"
                        /\ message' = BothFailedMessage(gender, error, out.err)
    /\ UNCHANGED <<others, session_log, scraper, caller, exported>>

\* cli.py lines 87-95: get_rankings returned, export_to_csv is next.
MainApiReturns ==
    /\ caller = "main" /\ stage = "api" /\ pc = "returned"
    /\ scraped' = result
    /\ stage' = "export"
    /\ UNCHANGED <<others, html_log, session_log, scraper, caller, html_requested, html_error, is_fallback, message,
                   exported>>

\* cli.py lines 102-104: get_rankings raised an Exception; the fallback
\* follows, whatever the gender.
MainApiFails ==
    /\ caller = "main" /\ stage = "api"
    /\ pc = "raised" /\ error # Interrupted
    /\ stage' = "html"
    /\ UNCHANGED <<others, html_log, session_log, scraper, caller, html_requested, html_error, scraped, is_fallback,
                   message, exported>>

\* cli.py lines 96 and 109: export_to_csv of the records held.  When it
\* raises (exporter.py lines 60-62), the export of line 96 is inside the try
\* of line 86, so the fallback of lines 102-110 follows; the export of line
\* 109 ends the turn in failure_count += 1 (lines 113-116).
MainExport ==
    /\ caller = "main" /\ stage \in {"export", "html_export"}
    /\ \E written \in BOOLEAN :
          IF scraped = <<>> \/ written
            THEN /\ exported' = export_to_csv(exported, scraped,
                                              IF stage = "export" THEN OutputFile(gender)
                                                                  ELSE FallbackFile(gender))
                 /\ stage' = "exported"
            ELSE /\ exported' = exported
                 /\ stage' = (IF stage = "export" THEN "html" ELSE "failed")
    /\ UNCHANGED <<others, html_log, session_log, scraper, caller, html_requested, html_error, scraped, is_fallback,
                   message>>

\* cli.py lines 106-116: scrape_rankings_html returns its records for the
\* export of line 109, or raises and the turn ends in failure_count += 1.
MainFallback ==
    /\ caller = "main" /\ stage = "html"
    /\ \E html \in HtmlPages :
          LET out == scrape_rankings_html(html)
          IN  /\ html_requested' = TRUE
              /\ html_log' = HtmlSessionEvents(html)
              /\ html_error' = out.err
              /\ IF out.err = "none"
                   THEN /\ scraped' = out.records
                        /\ stage' = "html_export"
                   ELSE /\ scraped' = scraped
                        /\ stage' = "failed"
    /\ UNCHANGED <<others, session_log, scraper, caller, is_fallback, message, exported>>

\* A KeyboardInterrupt is not an Exception: the one that ended get_rankings,
\* or one during the fallback or the export, passes the except clauses of
\* both callers.  During the fallback the session may or may not have been
\* created, and the request may or may not have been made.
CallerInterrupted ==
    /\ \/ stage = "api" /\ pc = "raised" /\ error = Interrupted
       \/ stage \in {"html", "export", "html_export"}
    /\ stage' = "interrupted"
    /\ \E events \in {<<>>, <<"open", "close">>, <<"open", "get", "close">>} :
          /\ html_log' = (IF stage = "html" THEN events ELSE html_log)
          /\ html_requested' = (html_requested \/ (stage = "html" /\ Len(events) = 3))
    /\ UNCHANGED <<others, session_log, scraper, caller, html_error, scraped, is_fallback,
                   message, exported>>

NextFallback ==
    \/ scrape_gender
    \/ main
    \/ Step
    \/ ScrapeGenderReturns
    \/ ScrapeGenderApiFails
    \/ ScrapeGenderFallback
    \/ MainApiReturns
    \/ MainApiFails
    \/ MainExport
    \/ MainFallback
    \/ CallerInterrupted

\* run_scraper.py imports init_dirs from config (line 17) and the record
\* types of schema.py, which src/src/psa_squash_rankings has and the flat
\* config.py has not: the callers run on the package snapshot.
InitFallback == Init /\ snapshot = "package"

SpecFallback == InitFallback /\ [][NextFallback]_vars

\* The runs of scrape_gender alone.
NextScrapeGender ==
    \/ scrape_gender
    \/ Step
    \/ ScrapeGenderReturns
    \/ ScrapeGenderApiFails
    \/ ScrapeGenderFallback
    \/ CallerInterrupted

SpecScrapeGender == InitFallback /\ [][NextScrapeGender]_vars

\* ------------------------------------------------ the command-line runs
\* run_scraper.py main (lines 114-231) and cli.py main (lines 19-124): the
\* genders of --gender are processed one after another, in one process; the
\* files written accumulate in exported.  The arguments --max-pages and
\* --no-resume of the run are those of every call of get_rankings.
\* After a turn of the loop stage is "exported" or "failed", and "counted"
\* once the turn has been counted.
Programs == {"run_scraper", "cli"}

\* run_scraper.py lines 166-169, cli.py lines 74-75.
GenderLists == {<<"male">>, <<"female">>, <<"male", "female">>}

InitCommandLine ==
    /\ Constructed
    /\ snapshot = "package"
    /\ NotApplied
    /\ program \in Programs
    /\ todo \in GenderLists
    /\ success_count = 0
    /\ failure_count = 0
    /\ fallback_count = 0
    /\ turns = <<>>
    /\ exit_code = None

\* The head of the loop (run_scraper.py lines 175-187, cli.py lines 80-93):
\* the next gender is taken and get_rankings is called, by scrape_gender
\* (line 70) or by main itself.
TurnStart ==
    /\ program \in Programs
    /\ exit_code = None
    /\ todo # <<>>
    /\ stage \in {"idle", "counted"}
    /\ \E mp \in MaxPagesValues, r \in BOOLEAN :
          /\ stage = "counted" => (mp = max_pages /\ r = resume)
          /\ get_rankings(Head(todo), PageSize, mp, r)
    /\ caller' = (IF program = "run_scraper" THEN "scrape_gender" ELSE "main")
    /\ stage' = "api"
    /\ html_requested' = FALSE
    /\ html_error' = "none"
    /\ scraped' = <<>>
    /\ is_fallback' = FALSE
    /\ message' = <<>>
    /\ html_log' = <<>>
    /\ UNCHANGED <<prev, others, exported>>

\* run_scraper.py lines 189-195: scrape_gender returned; the file name
\* follows is_fallback, and export_to_csv writes or raises (line 211).
RunScraperExport ==
    /\ program = "run_scraper" /\ stage = "returned"
    /\ fallback_count' = fallback_count + (IF is_fallback THEN 1 ELSE 0)
    /\ \E written \in BOOLEAN :
          IF scraped = <<>> \/ written
            THEN /\ exported' = export_to_csv(exported, scraped,
                                              IF is_fallback THEN FallbackFile(gender)
                                                             ELSE OutputFile(gender))
                 /\ stage' = "exported"
            ELSE /\ exported' = exported
                 /\ stage' = "failed"
    /\ UNCHANGED <<agents, applied, program, todo, success_count, failure_count, turns, exit_code,
                   html_log, session_log, scraper, caller, html_requested, html_error,
                   scraped, is_fallback, message>>

\* run_scraper.py line 211: scrape_gender raised an Exception.
RunScraperFails ==
    /\ program = "run_scraper" /\ stage = "raised"
    /\ stage' = "failed"
    /\ UNCHANGED <<others, html_log, session_log, scraper, caller, html_requested,
                   html_error, scraped, is_fallback, message, exported>>

\* The path a finished turn took.
TurnPath ==
    IF stage = "failed" THEN "failed"
    ELSE IF html_requested THEN "html"
    ELSE "api"

\* The end of a turn: success_count += 1 (run_scraper.py line 209, cli.py
\* lines 100 and 111) or failure_count += 1 (line 214, cli.py line 116).
Count ==
    /\ program \in Programs
    /\ stage \in {"exported", "failed"}
    /\ success_count' = success_count + (IF stage = "exported" THEN 1 ELSE 0)
    /\ failure_count' = failure_count + (IF stage = "failed" THEN 1 ELSE 0)
    /\ turns' = Append(turns, [gender |-> gender, path |-> TurnPath])
    /\ todo' = Tail(todo)
    /\ stage' = "counted"
    /\ UNCHANGED <<agents, applied, program, fallback_count, exit_code, html_log, session_log,
                   scraper, caller, html_requested, html_error, scraped, is_fallback,
                   message, exported>>

\* run_scraper.py line 231, cli.py line 124.
ExitCode(failures) == IF failures = 0 THEN 0 ELSE 1

\* The loop is over: sys.exit of run_scraper.py line 231, or the return of
\* cli.py line 124 handed to sys.exit (line 129).
Exit ==
    /\ program \in Programs
    /\ exit_code = None
    /\ stage = "counted" /\ todo = <<>>
    /\ exit_code' = Some(ExitCode(failure_count))
    /\ UNCHANGED <<agents, applied, program, todo, success_count, failure_count, fallback_count,
                   turns, html_log, session_log, scraper, coordinator>>

\* run_scraper.py lines 238-240, cli.py lines 130-132: a KeyboardInterrupt
\* ends the run with code 130.
ExitInterrupted ==
    /\ program \in Programs
    /\ exit_code = None
    /\ stage = "interrupted"
    /\ exit_code' = Some(130)
    /\ UNCHANGED <<agents, applied, program, todo, success_count, failure_count, fallback_count,
                   turns, html_log, session_log, scraper, coordinator>>

NextCommandLine ==
    \/ TurnStart
    \/ Step
    \/ ScrapeGenderReturns
    \/ ScrapeGenderApiFails
    \/ ScrapeGenderFallback
    \/ MainApiReturns
    \/ MainApiFails
    \/ MainExport
    \/ MainFallback
    \/ CallerInterrupted
    \/ RunScraperExport
    \/ RunScraperFails
    \/ Count
    \/ Exit
    \/ ExitInterrupted

SpecCommandLine == InitCommandLine /\ [][NextCommandLine]_vars

\* ------------------------------------------------- data_parser.py: strings
\* A Python str is the sequence of its characters.  The values a measurement
\* field can hold are None, a str or an int.
PyNone == [t |-> "None", s |-> <<>>, n |-> 0]
PyStr(s) == [t |-> "str", s |-> s, n |-> 0]
PyInt(n) == [t |-> "int", s |-> <<>>, n |-> n]

DigitChars == <<"0", "1", "2", "3", "4", "5", "6", "7", "8", "9">>
UpperCase == <<"A", "B", "C", "D", "E", "F", "G", "H", "I", "J", "K", "L", "M",
               "N", "O", "P", "Q", "R", "S", "T", "U", "V", "W", "X", "Y", "Z">>
LowerCase == <<"a", "b", "c", "d", "e", "f", "g", "h", "i", "j", "k", "l", "m",
               "n", "o", "p", "q", "r", "s", "t", "u", "v", "w", "x", "y", "z">>

Range(f) == {f[i] : i \in DOMAIN f}

\* str.isdigit for one character, and the character's value.
IsDigit(c) == c \in Range(DigitChars)
DigitValue(c) == (CHOOSE i \in DOMAIN DigitChars : DigitChars[i] = c) - 1

\* int(s) for a str of digits.
RECURSIVE int(_)
int(s) ==
    IF s = <<>> THEN 0
    ELSE 10 * int(SubSeq(s, 1, Len(s) - 1)) + DigitValue(s[Len(s)])

\* str(n) for a natural number n.
RECURSIVE Repr(_)
Repr(n) ==
    IF n < 10 THEN <<DigitChars[n + 1]>>
    ELSE Repr(n \div 10) \o <<DigitChars[(n % 10) + 1]>>

\* str(value), line 21 and line 24.
StrOf(value) ==
    IF value.t = "str" THEN value.s
    ELSE IF value.t = "int" THEN Repr(value.n)
    ELSE <<"N", "o", "n", "e">>

\* `not value`, line 21.
Falsy(value) ==
    \/ value.t = "None"
    \/ value.t = "str" /\ value.s = <<>>
    \/ value.t = "int" /\ value.n = 0

\* str.strip(): leading and trailing white space removed.
RECURSIVE LStrip(_)
LStrip(s) == IF s # <<>> /\ Head(s) = " " THEN LStrip(Tail(s)) ELSE s
RECURSIVE RStrip(_)
RStrip(s) ==
    IF s # <<>> /\ s[Len(s)] = " " THEN RStrip(SubSeq(s, 1, Len(s) - 1)) ELSE s
Strip(s) == RStrip(LStrip(s))

\* str.lower().
LowerChar(c) ==
    IF c \in Range(UpperCase)
      THEN LowerCase[CHOOSE i \in DOMAIN UpperCase : UpperCase[i] = c]
      ELSE c
Lower(s) == [i \in 1..Len(s) |-> LowerChar(s[i])]

\* `sub in s` for two strs.
Contains(s, sub) ==
    \E i \in 1..(Len(s) - Len(sub) + 1) : SubSeq(s, i, i + Len(sub) - 1) = sub

\* The length of the run of digits s starts with.
RECURSIVE LeadingDigits(_)
LeadingDigits(s) ==
    IF s # <<>> /\ IsDigit(Head(s)) THEN 1 + LeadingDigits(Tail(s)) ELSE 0

\* re.findall(r"(\d+)", s), line 28: the maximal runs of digits, in order.
RECURSIVE FindAllDigits(_)
FindAllDigits(s) ==
    IF s = <<>> THEN <<>>
    ELSE IF ~IsDigit(Head(s)) THEN FindAllDigits(Tail(s))
    ELSE LET n == LeadingDigits(s)
         IN  <<SubSeq(s, 1, n)>> \o FindAllDigits(SubSeq(s, n + 1, Len(s)))

\* re.sub(r"[^0-9]", "", s), lines 38, 43 and 47.
DigitsOnly(s) == SelectSeq(s, IsDigit)

\* round(num / den) of Python 3: to the nearest integer, a half to the even
\* one.  (On the values of the model the float product of the code and the
\* exact quotient round alike.)
Round(num, den) ==
    LET q == num \div den
        r == num % den
    IN  IF 2 * r > den THEN q + 1
        ELSE IF 2 * r < den THEN q
        ELSE IF q % 2 = 0 THEN q ELSE q + 1

\* ------------------------------------------- data_parser.py: parse_measure
\* What an application of a parser function gives: a returned value, or the
\* exception raised (with the field names it lists).
Pending == [raised |-> "pending", missing |-> {}, value |-> PyNone]
Returned(v) == [raised |-> "none", missing |-> {}, value |-> v]
Raises(e, fields) == [raised |-> e, missing |-> fields, value |-> PyNone]

NoNumericData == "ValueError: No numeric data found"
MissingFields == "ValueError: API schema validation failed. Missing fields"
NotAnInteger == "ValueError: invalid literal for int()"
NotANumber == "TypeError: int() argument"

\* Line 26: `"'" in val_str or "ft" in val_str`.
FeetMarked(val_str) == Contains(val_str, <<"'">>) \/ Contains(val_str, <<"f", "t">>)

\* Line 37: `"in" in val_str`.
InchMarked(val_str) == Contains(val_str, <<"i", "n">>)

\* Line 42: `"lb" in val_str or "pound" in val_str`.
PoundMarked(val_str) ==
    \/ Contains(val_str, <<"l", "b">>)
    \/ Contains(val_str, <<"p", "o", "u", "n", "d">>)

\* Line 21: `if not value or not str(value).strip()`.
\* Variant: only an absent value counts as blank.
Blank_Mutant(value) == value.t = "None"

Blank(value) == Falsy(value) \/ Strip(StrOf(value)) = <<>>

\* parse_measure(value, unit_label), lines 15-52.  2.54 is 254/100, 30.48 is
\* 3048/100 and 0.453592 is 56699/125000.
parse_measure(value) ==
    IF Blank(value) THEN Returned(PyNone)
    ELSE LET val_str == Lower(Strip(StrOf(value)))
             parts == FindAllDigits(val_str)
             clean_value == DigitsOnly(val_str)
         IN  IF FeetMarked(val_str) /\ Len(parts) >= 2
               THEN Returned(PyInt(Round((int(parts[1]) * 12 + int(parts[2])) * 254, 100)))
             ELSE IF FeetMarked(val_str) /\ Len(parts) = 1
               THEN Returned(PyInt(Round(int(parts[1]) * 3048, 100)))
             ELSE IF InchMarked(val_str) /\ clean_value # <<>>
               THEN Returned(PyInt(Round(int(clean_value) * 254, 100)))
             ELSE IF PoundMarked(val_str) /\ clean_value # <<>>
               THEN Returned(PyInt(Round(int(clean_value) * 56699, 125000)))
             ELSE IF clean_value = <<>>
               THEN Raises(NoNumericData, {})
             ELSE Returned(PyInt(int(clean_value)))

\* ------------------------------------------------ the measurement values
\* The strs of the model are made of at most MaxTokens of these pieces and
\* hold at most MaxDigits digits.
MaxTokens == 3
MaxDigits == 3

Tokens ==
    {<<"6">>, <<"1">>, <<"7", "2">>, <<"7", "5">>, <<"1", "8", "5">>,
     <<" ">>, <<"'">>, <<"\"">>, <<"f", "t">>, <<"i", "n">>, <<"c", "m">>,
     <<"k", "g">>, <<"L", "b", "s">>, <<"p", "o", "u", "n", "d">>,
     <<"a", "b", "c">>}

RECURSIVE Concat(_)
Concat(ts) == IF ts = <<>> THEN <<>> ELSE Head(ts) \o Concat(Tail(ts))

Strs(tokens, digits) ==
    {s \in {Concat(ts) : ts \in UNION {[1..n -> Tokens] : n \in 0..tokens}} :
        Len(DigitsOnly(s)) <= digits}

MeasureValues(tokens, digits) ==
    {PyNone, PyInt(0), PyInt(185)} \cup {PyStr(s) : s \in Strs(tokens, digits)}

\* ---------------------------------------- validator.py and data_parser.py
\* validator.py lines 15-21.
REQUIRED_API_FIELDS == {"World Ranking", "Name", "Id", "Tournaments", "Total Points"}

\* Variant: the error lists every required field.
validate_api_schema_Mutant(player) ==
    IF REQUIRED_API_FIELDS \ DOMAIN player # {}
      THEN Raises(MissingFields, REQUIRED_API_FIELDS)
      ELSE Returned(PyNone)

\* validate_api_schema(player), validator.py lines 24-44: a raw item is a
\* dictionary, that is a function on its keys.
validate_api_schema(player) ==
    LET missing_fields == REQUIRED_API_FIELDS \ DOMAIN player
    IN  IF missing_fields # {} THEN Raises(MissingFields, missing_fields)
        ELSE Returned(PyNone)

\* int(value) of lines 72-74: an int is kept, a str of digits (white space
\* around it allowed) is converted, any other str is a ValueError and None a
\* TypeError.
IntOf(value) ==
    IF value.t = "int" THEN Returned(PyInt(value.n))
    ELSE IF value.t = "None" THEN Raises(NotANumber, {})
    ELSE IF Strip(value.s) # <<>> /\ DigitsOnly(Strip(value.s)) = Strip(value.s)
      THEN Returned(PyInt(int(Strip(value.s))))
    ELSE Raises(NotAnInteger, {})

\* `player.get(key)` as a condition, lines 85 and 92.
Truthy(player, key) == key \in DOMAIN player /\ ~Falsy(player[key])

\* `except ValueError`, lines 88 and 95.
\* Variant: no handler.
Caught_Mutant(o) == FALSE

Caught(o) == o.raised \in {NoNumericData, MissingFields, NotAnInteger}

\* Lines 85-90 (Height) and 92-97 (Weight): what parse_measure gave for the
\* field, when the field is there and truthy.
Measured(player, key) ==
    IF Truthy(player, key) THEN parse_measure(player[key]) ELSE Returned(PyNone)

\* The field of the record: the value parse_measure returned, None when the
\* field was skipped or the ValueError was caught.
MeasureField(o) == IF o.raised = "none" THEN o.value ELSE PyNone

\* `if key in player`, lines 82-83 and 99-100.
Copied(player, key) == IF key \in DOMAIN player THEN player[key] ELSE PyNone

\* parse_api_player(player), lines 55-103, with every field of the record.
parse_api_player_record(player) ==
    LET valid == validate_api_schema(player)
    IN  IF valid.raised # "none" THEN valid
        ELSE LET id == IntOf(player["Id"])
                 tournaments == IntOf(player["Tournaments"])
                 points == IntOf(player["Total Points"])
                 height == Measured(player, "Height")
                 weight == Measured(player, "Weight")
             IN  IF id.raised # "none" THEN id
                 ELSE IF tournaments.raised # "none" THEN tournaments
                 ELSE IF points.raised # "none" THEN points
                 ELSE IF height.raised # "none" /\ ~Caught(height) THEN height
                 ELSE IF weight.raised # "none" /\ ~Caught(weight) THEN weight
                 ELSE Returned([rank |-> player["World Ranking"],
                                player |-> player["Name"],
                                id |-> id.value,
                                tournaments |-> tournaments.value,
                                points |-> points.value,
                                height_cm |-> MeasureField(height),
                                weight_kg |-> MeasureField(weight),
                                birthdate |-> Copied(player, "Birthdate"),
                                country |-> Copied(player, "Country"),
                                source |-> "api"])

\* ------------------------------------------------------- the raw items
Fields == REQUIRED_API_FIELDS \cup {"Height", "Weight", "Country"}

IdValues == {PyInt(7), PyStr(<<"7", "2">>), PyStr(<<"a", "b", "c">>), PyNone}
HeightValues ==
    {PyStr(<<"1", "8", "5", "c", "m">>), PyStr(<<"6", "'", "1">>),
     PyStr(<<"a", "b", "c">>), PyStr(<<"'">>), PyStr(<<>>), PyInt(185)}
WeightValues ==
    {PyStr(<<"7", "5", "k", "g">>), PyStr(<<"1", "8", "5", "L", "b", "s">>),
     PyStr(<<"L", "b", "s">>)}

\* An item with every field.
FullItem(id, height, weight) ==
    [k \in Fields |->
        CASE k = "World Ranking" -> PyInt(1)
          [] k = "Name" -> PyStr(<<"A">>)
          [] k = "Id" -> id
          [] k = "Tournaments" -> PyInt(12)
          [] k = "Total Points" -> PyInt(185)
          [] k = "Height" -> height
          [] k = "Weight" -> weight
          [] OTHER -> PyStr(<<"E", "G", "Y">>)]

\* The item with the keys K only.
Restrict(player, K) == [k \in K |-> player[k]]

RawItems(fields) ==
    {Restrict(FullItem(id, height, weight), K) :
        id \in IdValues, height \in HeightValues, weight \in WeightValues,
        K \in SUBSET fields}

\* ------------------------------------- html_scraper.py: the rows of the table
\* A <tr> is the sequence of the texts of its <td> cells; get_text(strip=True)
\* strips each text.
\* Variant: the grouping commas stay.
WithoutCommas_Mutant(text) == text

\* `.replace(",", "")`, line 112.
WithoutCommas(text) == SelectSeq(text, LAMBDA c : c # ",")

\* int(text) of lines 109-112 for a str: a ValueError unless the stripped
\* text is made of digits.
IsNumber(text) == Strip(text) # <<>> /\ DigitsOnly(Strip(text)) = Strip(text)

\* Lines 103-115: the row is used when it has four cells and its three
\* numbers convert.
RowUsed(row) ==
    /\ Len(row) >= 4
    /\ IsNumber(row[1])
    /\ IsNumber(row[3])
    /\ IsNumber(WithoutCommas(Strip(row[4])))

\* Lines 117-123.
HtmlPlayerRecord(row) ==
    [rank |-> int(Strip(row[1])),
     player |-> Strip(row[2]),
     tournaments |-> int(Strip(row[3])),
     points |-> int(WithoutCommas(Strip(row[4]))),
     source |-> "html"]

\* Lines 100-125: the loop over the rows.
RECURSIVE ScrapeRows(_)
ScrapeRows(rows) ==
    IF rows = <<>> THEN <<>>
    ELSE IF RowUsed(Head(rows))
      THEN <<HtmlPlayerRecord(Head(rows))>> \o ScrapeRows(Tail(rows))
    ELSE ScrapeRows(Tail(rows))

\* Lines 96-133 for the <tr> elements found in the table.
scrape_rankings_html_rows(rows) ==
    IF rows = <<>> THEN Raises(HtmlRowsError, {})
    ELSE Returned([records |-> ScrapeRows(rows)])

\* The tables of the model have at most MaxRows rows.
MaxRows == 2

RankCells == {<<"1">>, <<" ", "2">>, <<"T", "5">>}
TournamentCells == {<<"1", "2">>, <<>>}
PointsCells == {<<"2", "0", ",", "0", "0", "0">>, <<"1", "8", "5">>, <<"1", ",", "x">>}

TableRows ==
    {<<r, <<"A">>, t, pts>> : r \in RankCells, t \in TournamentCells, pts \in PointsCells}
        \cup {<<>>, <<<<"1">>, <<"A">>>>,
              <<<<"3">>, <<"A">>, <<"1", "2">>>>,
              <<<<"4">>, <<"A">>, <<"1", "2">>, <<"1", "8", "5">>, <<"E", "G", "Y">>>>}

Tables(max) == UNION {[1..n -> TableRows] : n \in 0..max}

\* --------------------------------- the parser functions applied on their own
Arguments(tokens, digits, rows) ==
    {[fn |-> "parse_measure", value |-> v] : v \in MeasureValues(tokens, digits)}
        \cup {[fn |-> "parse_api_player", value |-> p] : p \in RawItems(Fields)}
        \cup {[fn |-> "scrape_rankings_html", value |-> [rows |-> t]] : t \in Tables(rows)}

InitParser ==
    /\ Constructed
    /\ snapshot = "package"
    /\ NotLaunched
    /\ argument \in Arguments(MaxTokens, MaxDigits, MaxRows)
    /\ outcome = Pending

ApplyParseMeasure ==
    /\ argument.fn = "parse_measure"
    /\ outcome.raised = "pending"
    /\ outcome' = parse_measure(argument.value)
    /\ UNCHANGED <<agents, argument, cmdline, html_log, session_log, coordinator, scraper>>

ApplyParseApiPlayer ==
    /\ argument.fn = "parse_api_player"
    /\ outcome.raised = "pending"
    /\ outcome' = parse_api_player_record(argument.value)
    /\ UNCHANGED <<agents, argument, cmdline, html_log, session_log, coordinator, scraper>>

ApplyScrapeRows ==
    /\ argument.fn = "scrape_rankings_html"
    /\ outcome.raised = "pending"
    /\ outcome' = scrape_rankings_html_rows(argument.value.rows)
    /\ UNCHANGED <<agents, argument, cmdline, html_log, session_log, coordinator, scraper>>

NextParser == ApplyParseMeasure \/ ApplyParseApiPlayer \/ ApplyScrapeRows

SpecParser == InitParser /\ [][NextParser]_vars

\* ------------------------------------------------------------ termination
\* The steps get_rankings takes by itself.  The code is sequential and every
\* statement of the loop completes: the request returns or raises within
\* API_TIMEOUT (line 168), the file operations return or raise.  So a step of
\* the call that stays possible is eventually taken.  An interrupt is no
\* step of the call, and neither is the next call.
Progress ==
    \/ CapReached
    \/ RequestFails
    \/ MalformedResponse
    \/ EmptyPage
    \/ ItemRejected
    \/ PageParsed
    \/ SaveOpen
    \/ SaveOpenFails
    \/ SaveDump
    \/ SaveDumpFails
    \/ Decide
    \/ Return

\* The package snapshot of get_rankings, under that condition.
InitLive == Init /\ snapshot = "package"

SpecLive == InitLive /\ [][Next]_vars /\ WF_vars(Progress)

\* ------------------------------------------- calls with another page size
\* get_rankings called with any of two page sizes against a source that does
\* not change: SourceRecords records, ranked 1, 2, ..., of which the request
\* `?page=p&pageSize=ps` (line 159) returns those ranked (p-1)*ps+1 .. p*ps,
\* with hasMore telling whether records follow.  A call that starts again at
\* page 1 over pages kept for a checkpoint of the other page size is not
\* followed further than its first request.

\* The page sizes of the calls.
PageSizes == {1, PageSize}

\* The number of records of the source: MaxPage full pages.
SourceRecords == MaxPage * PageSize

\* The answer of the source to the request for page p at page size ps.
StablePage(p, ps) ==
    LET left == SourceRecords - (p - 1) * ps
    IN  Response("dict", "players",
                 IF p * ps < SourceRecords THEN "true" ELSE "false",
                 IF left >= ps THEN ps ELSE IF left > 0 THEN left ELSE 0,
                 0)

InvokeSized ==
    \E g \in Genders, ps \in PageSizes, mp \in MaxPagesValues, r \in BOOLEAN :
        /\ pc = "idle" \/ g = gender
        /\ get_rankings(g, ps, mp, r)
        /\ UNCHANGED <<prev, coordinator, others, html_log>>

StablePageParsed ==
    /\ PageParsed
    /\ raw_data' = Some(StablePage(page, page_size))

NextResize ==
    \/ InvokeSized
    \/ CapReached
    \/ RequestFails
    \/ StablePageParsed
    \/ SaveOpen
    \/ SaveOpenFails
    \/ SaveDump
    \/ SaveDumpFails
    \/ Decide
    \/ Return
    \/ Interrupt

SpecResize == Init /\ [][NextResize]_vars

\* ------------------------------------------------ the User-Agent rotation
\* The requests of get_rankings and scrape_rankings_html followed for their
\* User-Agent header only, in any order of the two functions.

\* Number of requests followed.
MaxRequests == 6

\* config.py lines 8-13.
USER_AGENTS ==
    << "Mozilla/5.0 (Macintosh; Intel Mac OS X 10_15_7)",
       "Mozilla/5.0 (Windows NT 10.0; Win64; x64)",
       "Mozilla/5.0 (X11; Linux x86_64)",
       "Mozilla/5.0 (iPhone; CPU iPhone OS 16_0 like Mac OS X)" >>

\* itertools.cycle(USER_AGENTS) at position c: what next() returns, and the
\* position after it.
NextAgent(c) == USER_AGENTS[c]
Advanced(c) == (c % Len(USER_AGENTS)) + 1

\* api_scraper.py line 161, then the request of line 168: every iteration of
\* the loop of get_rankings that sends a request takes next(USER_AGENT_CYCLE)
\* of api_scraper.py (created once at import, line 25).
ApiRequest ==
    /\ Len(sent) < MaxRequests
    /\ sent' = Append(sent, [by |-> "get_rankings", agent |-> NextAgent(api_cycle)])
    /\ api_cycle' = Advanced(api_cycle)
    /\ UNCHANGED <<html_cycle, applied, cmdline, scraper, coordinator, session_log,
                   html_log>>

\* html_scraper.py line 61, then the request of the function:
\* scrape_rankings_html takes next(USER_AGENT_CYCLE) of html_scraper.py
\* (another iterator, created at import of that module, line 25).
HtmlRequest ==
    /\ Len(sent) < MaxRequests
    /\ sent' = Append(sent, [by |-> "scrape_rankings_html",
                             agent |-> NextAgent(html_cycle)])
    /\ html_cycle' = Advanced(html_cycle)
    /\ UNCHANGED <<api_cycle, applied, cmdline, scraper, coordinator, session_log,
                   html_log>>

NextAgents == ApiRequest \/ HtmlRequest

SpecAgents == Init /\ [][NextAgents]_vars

\* ------------------------------------------------------------- type check
TypeOK ==
    /\ snapshot \in Snapshots
    /\ pc \in {"idle", "loop", "save", "dump", "decide", "clear", "returned", "raised",
              "loaded", "cleared", "cleared_again"}
    /\ gender \in Genders
    /\ max_pages \in MaxPagesValues
    /\ resume \in BOOLEAN
    /\ page \in 1..(MaxPage + 2)
    /\ \A g \in Genders : checkpoint_file[g].kind \in {"absent", "empty", "partial", "full"}
    /\ pc = "loop" => page <= Len(source[gender]) + 1


\* ================================================================= claims

\* One uninterrupted get_rankings call for gender g, started at page 1 with
\* nothing accumulated, against the fixed pages of the source: the loop of
\* lines 153-238 with no request failure, no save failure and no interrupt.
\* ok is FALSE when such a call raises (or needs a page that is not fixed).
RECURSIVE Run(_, _, _, _, _)
Run(g, ps, mp, p, acc) ==
    IF CapExceeded(mp, p) THEN [ok |-> TRUE, players |-> acc]
    ELSE IF p > Len(source[g]) THEN [ok |-> FALSE, players |-> <<>>]
    ELSE LET r == source[g][p]
             rd == ReadResponse(snapshot, r, ps)
             items == Items([r EXCEPT !.n = rd.n], p, ps)
         IN  IF rd.err THEN [ok |-> FALSE, players |-> <<>>]
             ELSE IF NoData(rd.n) THEN [ok |-> TRUE, players |-> acc]
             ELSE IF ParseFails(items) THEN [ok |-> FALSE, players |-> <<>>]
             ELSE IF StopsOnFlag(rd.has_more) \/ StopsOnPartial(rd.n, ps)
               THEN [ok |-> TRUE, players |-> acc \o ParsePage(items)]
             ELSE Run(g, ps, mp, p + 1, acc \o ParsePage(items))

Uninterrupted(g, ps, mp) == Run(g, ps, mp, 1, <<>>)

SlotUsable == load_checkpoint(gender) # None

\* The checkpoint in the slot of the gender, as load_checkpoint reads it.
Stored == load_checkpoint(gender)[1]

\* C2: with resume=True and a checkpoint with last_page = p in the slot, the
\* accumulation is seeded with the checkpoint's players and the first request
\* is for page p+1; otherwise the accumulation starts empty and the first
\* request is for page 1.
C2_SeedAndFirstRequest ==
    /\ (pc = "loop" /\ requested = <<>>) =>
          IF resume /\ SlotUsable
            THEN /\ all_players = Stored.players
                 /\ page = Stored.last_page + 1
            ELSE all_players = <<>> /\ page = 1
    /\ (pc = "save" /\ Len(requested) = 1) =>
          requested[1] = (IF resume /\ SlotUsable
                            THEN Stored.last_page + 1
                            ELSE 1)

\* C2 witness: a resumed call whose first request was for page 2, the
\* checkpoint covering page 1.
C2_Witness ==
    /\ pc = "save" /\ Len(requested) = 1
    /\ resume /\ SlotUsable
    /\ Stored.last_page = 1
    /\ requested[1] = 2
    /\ Len(all_players) > Len(Stored.players)

\* ------------------------------------------------------------------ C3
\* The errors C3 is about: a request that fails (network, HTTP status,
\* timeout) and a response that is not of the expected shape.
ResponseErrors == RequestErrors \cup {MalformedError}

PageRecords(r, p, ps) ==
    LET rd == ReadResponse(snapshot, r, ps)
    IN  IF rd.err THEN <<>> ELSE ParsePage(Items([r EXCEPT !.n = rd.n], p, ps))

\* The seed of the call followed by the records of the first k pages it
\* requested, in request order.
RECURSIVE Accumulated(_)
Accumulated(k) ==
    IF k = 0 THEN SeedPlayers(resume, checkpoint)
    ELSE Accumulated(k - 1)
            \o PageRecords(source[gender][requested[k]], requested[k], page_size)

\* C4 (as stated): after a normal return no checkpoint of the gender is in
\* the slot, and the result is the seed followed by the pages of the call.
C4_AsStated ==
    pc = "returned" =>
        /\ checkpoint_file[gender] = Absent
        /\ result = Accumulated(Len(requested))

\* C4 (amended): after a normal return the slot is empty unless removing the
\* file failed (which clear_checkpoint logs and swallows), and the result is
\* the seed followed by the records of every page of the call, in order.
C4_ReturnClearsCheckpoint ==
    pc = "returned" =>
        /\ clear_error \/ checkpoint_file[gender] = Absent
        /\ result = Accumulated(Len(requested))

\* C4 witness: a resumed call returned the seed and a further page, and the
\* checkpoint it had written was removed.
C4_Witness ==
    /\ pc = "returned" /\ ~clear_error
    /\ checkpoint # None
    /\ Len(result) > Len(checkpoint[1].players)
    /\ checkpoint_file[gender] = Absent

\* ------------------------------------------------------------------ C5
\* C5 (as stated): when a call has ended in an error, whatever the point of
\* the failure or interruption, no checkpoint file is empty or partly written
\* (each holds a complete checkpoint or does not exist).
C5_AsStated ==
    pc = "raised" =>
        \A g \in Genders : checkpoint_file[g].kind \in {"absent", "full"}

\* ------------------------------------------------------------ C6, C7, C9
\* The last response received, when there is one.
LastResponse == raw_data[1]

\* The page of the last response was appended: all_players ends with its records.
IsSuffix(t, u) ==
    /\ Len(t) <= Len(u)
    /\ SubSeq(u, Len(u) - Len(t) + 1, Len(u)) = t

LastPageAppended ==
    /\ Len(PageRecords(LastResponse, page, page_size)) = LastResponse.n
    /\ IsSuffix(PageRecords(LastResponse, page, page_size), all_players)
    /\ pc = "returned" => IsSuffix(PageRecords(LastResponse, page, page_size), result)

\* The call is past the last response and does not go round the loop again:
\* it is saving, deciding, clearing or has returned, or the save failed or
\* the process was interrupted; the page of the last response is the last
\* page requested.
NoFurtherRequest ==
    /\ \/ pc \in {"save", "dump", "decide", "clear", "returned"}
       \/ pc = "raised" /\ error \in {WriteError, Interrupted}
    /\ requested[Len(requested)] = page

\* A response the running snapshot reads without error, with n items, all complete.
ReadOK(r) == ~ReadResponse(snapshot, r, page_size).err /\ r.bad = 0

\* C6: a page with at least one item and fewer than page_size items is
\* appended and ends the loop, also when the response says hasMore=true.
C6_PartialPageStops ==
    (/\ raw_data # None
     /\ ReadOK(LastResponse)
     /\ LastResponse.n > 0 /\ LastResponse.n < page_size)
        => LastPageAppended /\ NoFurtherRequest

\* C6 witness: a partial page with hasMore=true was saved and the call is
\* about to clear the checkpoint.
C6_Witness ==
    /\ raw_data # None
    /\ LastResponse.type = "dict" /\ LastResponse.hasMore = "true"
    /\ LastResponse.n > 0 /\ LastResponse.n < page_size
    /\ pc = "clear"
    /\ all_players # <<>>

\* C7: a keyed page with items and hasMore=false is appended and ends the
\* loop, also when it carries exactly page_size items.
C7_LastPageAppended ==
    (/\ raw_data # None
     /\ ReadOK(LastResponse)
     /\ LastResponse.type = "dict" /\ LastResponse.hasMore = "false"
     /\ LastResponse.n > 0)
        => LastPageAppended /\ NoFurtherRequest

\* C7 witness: the call returned after a full page with hasMore=false, and
\* the result ends with the records of that page.
C7_Witness ==
    /\ raw_data # None
    /\ LastResponse.type = "dict" /\ LastResponse.hasMore = "false"
    /\ LastResponse.n = page_size
    /\ pc = "returned"
    /\ Len(result) >= page_size
    /\ result[Len(result)].rank = page * page_size

\* ------------------------------------------------------------------ C8
\* C8 (as stated): with max_pages = N configured (N >= 0), no request is
\* issued for a page above N.
C8_AsStated ==
    max_pages # None =>
        \A i \in 1..Len(requested) : requested[i] <= max_pages[1]

\* ------------------------------------------------------------------ C9
\* C9: a well-formed response with zero items ends the loop: nothing is
\* appended, no further page is requested, and the call returns the records
\* accumulated before that page.
C9_EmptyPageStops ==
    (/\ raw_data # None
     /\ ReadOK(LastResponse)
     /\ LastResponse.type = "list" \/ LastResponse.key = "players"
     /\ LastResponse.n = 0)
        => /\ \/ pc \in {"clear", "returned"}
              \/ pc = "raised" /\ error = Interrupted
           /\ requested[Len(requested)] = page
           /\ all_players = Accumulated(Len(requested) - 1)
           /\ pc = "returned" => result = all_players

\* C9 witness: page 2 of a call had zero items and the call returned the
\* records of page 1, nothing more.
C9_Witness ==
    /\ raw_data # None
    /\ LastResponse.n = 0 /\ LastResponse.type = "dict" /\ LastResponse.key = "players"
    /\ requested = <<1, 2>>
    /\ pc = "returned"
    /\ Len(result) = page_size /\ result = Accumulated(1)

\* ----------------------------------------------------------------- C10
\* A malformed response: a dict lacking the item key or the 'hasMore' key, or
\* a value that is neither a dict nor a list.
Malformed(r) ==
    \/ r.type = "other"
    \/ r.type = "dict" /\ (r.key = "none" \/ r.hasMore = "absent")

\* C10 (as stated): a malformed response always ends the call in an error.
C10_AsStated ==
    (raw_data # None /\ Malformed(LastResponse)) => pc = "raised"

\* ----------------------------------------------------------------- C11
\* The loop was left by a break after the last response (not by the page
\* cap, which is tested after page += 1).
StoppedAfterLastResponse ==
    /\ pc \in {"clear", "returned"}
    /\ requested[Len(requested)] = page

\* C11 (as stated): after a bare list the continuation is decided by the
\* number of items alone: a list of at least page_size items does not end the
\* loop (the next page is requested unless the page cap forbids it), a shorter
\* non-empty list is appended and ends it.
C11_AsStated ==
    (raw_data # None /\ LastResponse.type = "list" /\ LastResponse.bad = 0) =>
        /\ LastResponse.n >= page_size => ~StoppedAfterLastResponse
        /\ (LastResponse.n > 0 /\ LastResponse.n < page_size)
              => LastPageAppended /\ NoFurtherRequest

\* ----------------------------------------------------------------- C12
\* C12 (as stated): a keyed response with its items under 'data' is accepted
\* and handled as one with the items under 'players': it is not rejected as
\* malformed, and its records are appended.
C12_AsStated ==
    (/\ raw_data # None
     /\ LastResponse.type = "dict" /\ LastResponse.key = "data"
     /\ LastResponse.hasMore # "absent"
     /\ LastResponse.bad = 0 /\ LastResponse.n > 0)
        => /\ ~(pc = "raised" /\ error = MalformedError)
           /\ LastPageAppended

\* ----------------------------------------------------------------- C13
\* C13: when save_checkpoint(gender, page, all_players) has returned, whatever
\* the slot held before (nothing, a file that does not parse, an earlier
\* checkpoint), load_checkpoint(gender) returns a dictionary whose last_page
\* is page, whose total_players is len(all_players) and whose players are
\* all_players in the same order.
C13_SaveLoadRoundTrip ==
    pc = "decide" =>
        /\ load_checkpoint(gender) # None
        /\ Stored.last_page = page
        /\ Stored.total_players = Len(all_players)
        /\ Stored.players = all_players

\* C13 witness: a checkpoint of the gender with another last_page had been
\* loaded before, and the save of page 2 with two records, not in rank
\* order, has replaced it.
C13_Witness ==
    /\ pc = "decide"
    /\ checkpoint # None /\ checkpoint[1].gender = gender
    /\ checkpoint[1].last_page = 1
    /\ page = 2
    /\ all_players = <<Player(2), Player(1)>>
    /\ Stored.players = <<Player(2), Player(1)>>

\* ----------------------------------------------------------------- C15
\* The content of the slot is not a well-formed checkpoint: it does not
\* parse, is not an object, or lacks last_page, total_players or players.
IllFormed(f) ==
    \/ f.kind \in {"empty", "partial"}
    \/ f.kind = "full" /\ f.doc.json # "object"
    \/ f.kind = "full" /\ f.doc.json = "object"
          /\ ~(CheckpointKeys \subseteq DOMAIN f.doc.members)

C16_AsStated ==
    [][CallClear =>
          /\ pc' \in {"cleared", "cleared_again"} /\ error' = "none"
          /\ checkpoint_file'[gender'].kind = "absent"]_vars

\* C16 (amended): a call of clear_checkpoint raises nothing; on a slot that
\* is absent (no checkpoint, or the call follows a clear that removed it) it
\* changes nothing; unless removing the file failed, which is logged, the
\* slot is absent afterwards and load_checkpoint returns None for it.
C16_ClearIdempotent ==
    [][CallClear =>
          /\ pc' \in {"cleared", "cleared_again"} /\ error' = "none"
          /\ checkpoint_file[gender'].kind = "absent" =>
                (checkpoint_file' = checkpoint_file /\ ~clear_error')
          /\ ~clear_error' =>
                /\ checkpoint_file'[gender'].kind = "absent"
                /\ \A h \in Genders : h # gender' => checkpoint_file'[h] = checkpoint_file[h]]_vars

\* C16 witness: clear_checkpoint was called twice in a row for a gender whose
\* checkpoint had been loaded before; neither call failed, the slot is absent
\* and load_checkpoint returns None for it.
C16_Witness ==
    /\ pc = "cleared_again"
    /\ ~clear_error
    /\ checkpoint # None /\ checkpoint[1].gender = gender
    /\ checkpoint_file[gender].kind = "absent"
    /\ load_checkpoint(gender) = None

\* ----------------------------------------------------------------- C17
\* C17: no step of a get_rankings call for one gender (its load_checkpoint,
\* save_checkpoint and clear_checkpoint included) creates, changes or
\* removes the checkpoint file of the other gender.
C17_SlotsIsolated ==
    [][\A h \in Genders : h # gender' => checkpoint_file'[h] = checkpoint_file[h]]_vars

\* C17 witness: a call for male saved and cleared its own checkpoint and
\* returned records, and the checkpoint of female is still the one that
\* was there at the start.
C17_Witness ==
    /\ pc = "returned" /\ gender = "male"
    /\ result # <<>> /\ ~clear_error
    /\ checkpoint_file["male"] = Absent
    /\ checkpoint_file["female"] = Written(CheckpointData("female", 1, <<Player(1)>>))

\* ----------------------------------------------------------------- C14
\* C14: while get_rankings is in save_checkpoint for page k, a step either
\* goes on with the save (the file is opened, or the whole checkpoint of
\* page k is written), or the call ends in an error with no records
\* returned and no page requested after k.
C14_SaveFailurePropagates ==
    [][(pc \in {"save", "dump"}) =>
          ( \/ /\ pc' = "dump"
               /\ checkpoint_file'[gender] = Empty
            \/ /\ pc' = "decide"
               /\ checkpoint_file'[gender] = Written(CheckpointData(gender, page, all_players))
            \/ /\ pc' = "raised"
               /\ error' \in {WriteError, Interrupted}
               /\ result' = <<>>
               /\ requested' = requested
               /\ page' = page )]_vars

\* C14 witness: the save of page 2 failed after page 1 had been saved; the
\* call ended with the write error, pages 1 and 2 requested, nothing returned.
C14_Witness ==
    /\ pc = "raised" /\ error = WriteError
    /\ page = 2 /\ requested = <<1, 2>>
    /\ result = <<>>
    /\ all_players # <<>>

\* ----------------------------------------------------------------- C18
\* C18 (as stated): in every run of scrape_gender and of main, the request
\* of the HTML page is made only after get_rankings of that run has failed and
\* only for male; when get_rankings returned, scrape_gender returns its
\* records with is_fallback False and no HTML request made; for female no
\* HTML request is made and no file of HTML records is written.
C18_AsStated ==
    /\ html_requested => (pc = "raised" /\ gender = "male")
    /\ (caller = "scrape_gender" /\ stage = "returned" /\ pc = "returned")
          => (~is_fallback /\ ~html_requested /\ scraped = result)
    /\ gender = "female" =>
          /\ ~html_requested
          /\ \A f \in exported : \A i \in 1..Len(f.rows) : f.rows[i].source # "html"

\* ----------------------------------------------------------------- C19
\* The message names the cause.
Names(msg, cause) == \E i \in 1..Len(msg) : msg[i] = cause

\* C19: when get_rankings has raised an Exception and either the gender has
\* no fallback or scrape_rankings_html has raised an Exception too,
\* scrape_gender ends by raising one Exception whose message names the
\* exception of get_rankings and, when the HTML scraper was called, the
\* exception of the HTML scraper; it holds no records and returns nothing.
\* (A KeyboardInterrupt is not an Exception and leaves scrape_gender as it is.)
C19_CompositeError ==
    (/\ caller = "scrape_gender"
     /\ stage \in Finished
     /\ pc = "raised" /\ error # Interrupted
     /\ ~HasFallback(gender) \/ html_error # "none")
        => /\ stage = "raised"
           /\ scraped = <<>>
           /\ Names(message, error)
           /\ html_requested => Names(message, html_error)
           /\ html_requested = HasFallback(gender)

\* C19 witness: for male, get_rankings failed on a request after a page had
\* been saved and the HTML page had no table; the message names both.
C19_Witness ==
    /\ caller = "scrape_gender" /\ stage = "raised"
    /\ gender = "male"
    /\ error \in RequestErrors /\ page = 2
    /\ html_error = HtmlTableError
    /\ message = BothFailedMessage("male", error, HtmlTableError)

\* ----------------------------------------------------------------- C20
\* C20: the records returned by scrape_gender all carry source 'api' when
\* is_fallback is False and all carry source 'html' when it is True, also
\* when get_rankings was seeded from a checkpoint of an earlier run.
C20_HomogeneousProvenance ==
    (caller = "scrape_gender" /\ stage = "returned") =>
        \A i \in 1..Len(scraped) :
            scraped[i].source = (IF is_fallback THEN "html" ELSE "api")

\* C20 witness: scrape_gender returned records of get_rankings, the first of
\* them loaded from the checkpoint an earlier run had saved after page 1,
\* the others parsed from page 2 in this run.
C20_Witness ==
    /\ caller = "scrape_gender" /\ stage = "returned"
    /\ ~is_fallback
    /\ start_page = 2 /\ requested = <<2>>
    /\ checkpoint # None
    /\ Len(scraped) > Len(checkpoint[1].players)
    /\ Len(checkpoint[1].players) > 0

\* ----------------------------------------------------------------- C30
\* The page the call is at is the last one requested.
AtRequestedPage == requested # <<>> /\ requested[Len(requested)] = page

\* C30 (as stated): whenever the loop has been left for a page that was
\* requested and read without error, the checkpoint of that page, with the
\* cumulative records, has been saved before.
C30_AsStated ==
    (pc = "clear" /\ AtRequestedPage) =>
        /\ load_checkpoint(gender) # None
        /\ Stored.last_page = page
        /\ Stored.players = all_players

\* C30 (amended): save_checkpoint is entered only from a page just parsed
\* with at least one item, with that page's records appended; the tests of
\* hasMore and of the partial page are evaluated only right after that save
\* has written the cumulative records under the page's number, and lead to
\* the next page or out of the loop, never to a second save of the page.
\* (The page cap is tested before the request and the empty page before the
\* parse: neither is preceded by a save of that page.)
C30_SaveBeforeStopTests ==
    [][/\ (pc' = "save" /\ pc # "save") =>
             /\ pc = "loop" /\ page' = page
             /\ requested' = Append(requested, page)
             /\ parsed_players' # <<>>
             /\ all_players' = all_players \o parsed_players'
       /\ (pc' = "decide" /\ pc # "decide") =>
             /\ pc = "dump" /\ page' = page /\ all_players' = all_players
             /\ checkpoint_file'[gender] = Written(CheckpointData(gender, page, all_players))
       /\ (pc = "decide" /\ pc' # "decide") =>
             /\ checkpoint_file[gender] = Written(CheckpointData(gender, page, all_players))
             /\ \/ pc' = "loop" /\ page' = page + 1
                \/ pc' = "clear" /\ page' = page
                \/ pc' = "raised" /\ error' = Interrupted
       /\ (pc = "loop" /\ pc' = "clear") =>
             /\ checkpoint_file' = checkpoint_file
             /\ all_players' = all_players]_vars

\* C30 witness: page 2 has been parsed and saved with the records of pages 1
\* and 2, and the stop tests of page 2 are about to be evaluated.
C30_Witness ==
    /\ pc = "decide" /\ page = 2 /\ requested = <<1, 2>>
    /\ Len(all_players) > Len(parsed_players)
    /\ checkpoint_file[gender] = Written(CheckpointData(gender, 2, all_players))

\* ----------------------------------------------------------------- C25
\* C25: when an item of page k does not parse (here the last item of a full
\* page, after items that do), get_rankings ends with the parse error; the
\* accumulated records and the checkpoint file are as before the page, and
\* nothing is requested after page k in the call.
C25_BadItemAbortsPage ==
    [][/\ ItemRejected =>
             /\ pc' = "raised" /\ error' = SchemaError
             /\ result' = <<>>
             /\ all_players' = all_players
             /\ checkpoint_file' = checkpoint_file
             /\ requested' = Append(requested, page)
       /\ (pc = "raised" /\ requested' # requested) => requested' = <<>>]_vars

\* C25 witness: page 1 was parsed and saved; the last item of page 2 lacks a
\* required field, after an item that has them all; the call has ended with
\* the records and the checkpoint of page 1 only.
C25_Witness ==
    /\ pc = "raised" /\ error = SchemaError
    /\ page = 2 /\ requested = <<1, 2>>
    /\ LastResponse.bad = LastResponse.n /\ LastResponse.n > 1
    /\ Len(all_players) = page_size
    /\ checkpoint_file[gender] = Written(CheckpointData(gender, 1, all_players))

ParsedItem == argument.fn = "parse_api_player" /\ outcome.raised # "pending"
ParsedMeasure == argument.fn = "parse_measure" /\ outcome.raised # "pending"

FiveRequired == {"World Ranking", "Name", "Id", "Tournaments", "Total Points"}
Absent5 == FiveRequired \ DOMAIN argument.value

\* A value int() accepts: an int, or a str of digits.
Integral(v) ==
    \/ v.t = "int"
    \/ v.t = "str" /\ Strip(v.s) # <<>> /\ \A i \in DOMAIN Strip(v.s) : IsDigit(Strip(v.s)[i])

\* C24 as stated: parse_api_player fails exactly when one of the five
\* required fields is absent, and the error then names exactly the absent
\* ones.
C24_AsStated ==
    ParsedItem =>
        /\ (outcome.raised # "none") <=> (Absent5 # {})
        /\ (outcome.raised # "none") => outcome.missing = Absent5

\* C24, amended: when a required field is absent parse_api_player fails with
\* the schema error, which names exactly the required fields that are
\* absent; when all five are present it fails exactly when Id, Tournaments or
\* Total Points does not convert to an integer, with the error of int() and
\* no field named.
C24_MissingFieldsNamed ==
    ParsedItem =>
        /\ (Absent5 # {}) =>
              (outcome.raised = MissingFields /\ outcome.missing = Absent5)
        /\ (Absent5 = {}) =>
              /\ outcome.raised \in {"none", NotAnInteger, NotANumber}
              /\ outcome.missing = {}
              /\ (outcome.raised = "none") <=>
                    \A k \in {"Id", "Tournaments", "Total Points"} :
                        Integral(argument.value[k])

\* C24 witness: an item without Id and without Total Points was rejected with
\* exactly these two names.
C24_Witness ==
    /\ ParsedItem
    /\ Absent5 = {"Id", "Total Points"}
    /\ "Height" \in DOMAIN argument.value
    /\ outcome.raised = MissingFields
    /\ outcome.missing = {"Id", "Total Points"}

\* ----------------------------------------------------------------- C26
\* A measurement parse_measure cannot parse: a str that is not blank and has
\* no digit.
Unparseable(v) ==
    v.t = "str" /\ Strip(v.s) # <<>> /\ \A i \in DOMAIN v.s : ~IsDigit(v.s[i])

MeasureKeys == [Height |-> "height_cm", Weight |-> "weight_kg"]

\* C26: for a raw item with the five required fields, no error of
\* parse_measure leaves parse_api_player; a Height or Weight that
\* parse_measure cannot parse gives the outcome the item without that field
\* gives, and when the three numbers convert that outcome is a record whose
\* field for the measurement is None.
C26_MeasureFailureNotFatal ==
    (ParsedItem /\ Absent5 = {}) =>
        /\ outcome.raised # NoNumericData
        /\ \A key \in DOMAIN MeasureKeys :
              (key \in DOMAIN argument.value /\ Unparseable(argument.value[key])) =>
                  LET without == parse_api_player_record(
                                    Restrict(argument.value, DOMAIN argument.value \ {key}))
                  IN  /\ outcome.raised = without.raised
                      /\ (outcome.raised = "none") => outcome.value = without.value
                      /\ (\A k \in {"Id", "Tournaments", "Total Points"} :
                              Integral(argument.value[k]))
                            => /\ outcome.raised = "none"
                               /\ outcome.value[MeasureKeys[key]] = PyNone
                               /\ outcome.value.source = "api"

\* C26 witness: the height 'abc' became None while the weight '185Lbs' was
\* converted to 84 kg and the identifier '72' to 72.
C26_Witness ==
    /\ ParsedItem
    /\ DOMAIN argument.value = Fields
    /\ argument.value["Height"] = PyStr(<<"a", "b", "c">>)
    /\ argument.value["Weight"] = PyStr(<<"1", "8", "5", "L", "b", "s">>)
    /\ argument.value["Id"] = PyStr(<<"7", "2">>)
    /\ outcome.raised = "none"
    /\ outcome.value.height_cm = PyNone
    /\ outcome.value.weight_kg = PyInt(84)
    /\ outcome.value.id = PyInt(72)

\* ----------------------------------------------------------------- C27
\* The value stripped of the white space around it.
Stripped == Strip(argument.value.s)

\* Digits, then possibly spaces and one of the suffixes cm and kg.
MetricShaped(s) ==
    /\ LeadingDigits(s) > 0
    /\ Strip(SubSeq(s, LeadingDigits(s) + 1, Len(s))) \in {<<>>, <<"c", "m">>, <<"k", "g">>}

Lowered == Lower(Stripped)
Groups == FindAllDigits(Lowered)
IsFeetInches ==
    /\ Contains(Lowered, <<"'">>) \/ Contains(Lowered, <<"f", "t">>)
    /\ Len(Groups) >= 2
IsInchOnly ==
    /\ ~IsFeetInches
    /\ Contains(Lowered, <<"\"">>) \/ Contains(Lowered, <<"i", "n">>)
    /\ Groups # <<>>
IsPounds ==
    /\ ~IsFeetInches /\ ~IsInchOnly
    /\ Contains(Lowered, <<"l", "b">>) \/ Contains(Lowered, <<"p", "o", "u", "n", "d">>)
    /\ Groups # <<>>
AllDigits == int(DigitsOnly(Lowered))

\* C28 as stated: the first of feet-inches, inch-only (double-quote sign or
\* 'in'), pounds that matches decides the conversion, and only a value
\* matching none of them is read as the plain integer of its digits.
C28_AsStated ==
    (ParsedMeasure /\ argument.value.t = "str" /\ Groups # <<>>) =>
        /\ outcome.raised = "none"
        /\ IsFeetInches =>
              outcome.value = PyInt(Round((int(Groups[1]) * 12 + int(Groups[2])) * 254, 100))
        /\ IsInchOnly => outcome.value = PyInt(Round(AllDigits * 254, 100))
        /\ IsPounds => outcome.value = PyInt(Round(AllDigits * 56699, 125000))
        /\ (outcome.value = PyInt(AllDigits))
              => (~IsFeetInches /\ ~IsInchOnly /\ ~IsPounds)

\* ----------------------------------------------------------------- C29
ScrapedRows == argument.fn = "scrape_rankings_html" /\ outcome.raised # "pending"

\* A cell that reads as a number: digits, with white space around them.
Numeric(text) ==
    /\ \E i \in DOMAIN text : IsDigit(text[i])
    /\ \A i \in DOMAIN text : IsDigit(text[i]) \/ text[i] = " "
    /\ \A i, j \in DOMAIN text :
          (i < j /\ IsDigit(text[i]) /\ IsDigit(text[j])) =>
              \A k \in i..j : IsDigit(text[k])

\* The digits of a cell, as a number.
NumberIn(text) == int(SelectSeq(text, IsDigit))

\* The positions of the rows with at least four cells, and of those whose
\* rank, tournaments and points (commas aside) are numbers as well.
WideRows == {i \in DOMAIN argument.value.rows : Len(argument.value.rows[i]) >= 4}
NumberedRows ==
    {i \in WideRows :
        /\ Numeric(argument.value.rows[i][1])
        /\ Numeric(argument.value.rows[i][3])
        /\ Numeric(SelectSeq(argument.value.rows[i][4], LAMBDA c : c # ","))}

\* The position of the n-th row of the set S of positions.
NthOf(S, n) == CHOOSE i \in S : Cardinality({j \in S : j < i}) = n - 1

\* C29 as stated: exactly one record for each row with at least four cells.
C29_AsStated ==
    (ScrapedRows /\ argument.value.rows # <<>>) =>
        /\ outcome.raised = "none"
        /\ Len(outcome.value.records) = Cardinality(WideRows)

\* C29, amended: a table with rows never makes the call fail; it returns, in
\* row order, one record for each row that has at least four cells and whose
\* rank, tournaments and points (grouping commas removed) are numbers, and
\* none for any other row; every record has source 'html' and exactly the
\* keys rank, player, tournaments, points, source.
C29_OneRecordPerNumberedRow ==
    (ScrapedRows /\ argument.value.rows # <<>>) =>
        /\ outcome.raised = "none"
        /\ Len(outcome.value.records) = Cardinality(NumberedRows)
        /\ \A n \in DOMAIN outcome.value.records :
              LET row == argument.value.rows[NthOf(NumberedRows, n)]
                  record == outcome.value.records[n]
              IN  /\ DOMAIN record = {"rank", "player", "tournaments", "points", "source"}
                  /\ record.source = "html"
                  /\ record.rank = NumberIn(row[1])
                  /\ record.tournaments = NumberIn(row[3])
                  /\ record.points = NumberIn(row[4])

\* C29 witness: of a row with two cells and a row with the points '20,000',
\* the second alone gave a record, with 20000 points.
C29_Witness ==
    /\ ScrapedRows
    /\ Len(argument.value.rows) = 2
    /\ Len(argument.value.rows[1]) = 2
    /\ Len(argument.value.rows[2]) = 4
    /\ argument.value.rows[2][4] = <<"2", "0", ",", "0", "0", "0">>
    /\ outcome.raised = "none"
    /\ Len(outcome.value.records) = 1
    /\ outcome.value.records[1].points = 20000

\* ----------------------------------------------------------------- C21
\* The source tags of the records of a file.
Sources(f) == {f.rows[i].source : i \in DOMAIN f.rows}

\* C21 as stated: psa_rankings_<gender>.csv holds records of source 'api'
\* only, psa_rankings_<gender>_fallback.csv holds records of source 'html'
\* only, and those of that gender: the HTML page lists the men (config.py
\* line 18), so only the male fallback file can hold its records.
C21_AsStated ==
    \A f \in exported :
        /\ \E g \in Genders : f.name \in {OutputFile(g), FallbackFile(g)}
        /\ \A g \in Genders :
              /\ (f.name = OutputFile(g)) => Sources(f) = {"api"}
              /\ (f.name = FallbackFile(g)) => (Sources(f) = {"html"} /\ HasFallback(g))

\* ----------------------------------------------------------------- C22
\* A turn that succeeded through the primary path, or through the degraded
\* path of a gender that has one.
Succeeded(turn) ==
    \/ turn.path = "api"
    \/ turn.path = "html" /\ HasFallback(turn.gender)

\* C22 as stated: the exit code is 0 exactly when every requested gender was
\* processed and succeeded through the primary or the degraded path; a
\* failure of one gender does not end the loop.
C22_AsStated ==
    (exit_code # None) =>
        /\ (exit_code = Some(0)) <=>
              (todo = <<>> /\ \A i \in DOMAIN turns : Succeeded(turns[i]))
        /\ (\E i \in DOMAIN turns : turns[i].path = "failed")
              => (todo = <<>> \/ exit_code = Some(130))

\* ------------------------------------------------------------------- C31
\* C31: within one get_rankings call the pages are requested one at a time
\* in increasing order: the first request is for the start page, every later
\* request is for the page one above the request before it, so no page is
\* requested twice; and a request that follows another one in the call is
\* issued only when the checkpoint of the page before it, with the records
\* accumulated up to that page, is written in the slot of the gender.
C31_RequestsInOrderAfterSave ==
    [][requested' # requested /\ requested' # <<>> =>
          /\ requested' = Append(requested, page)
          /\ \A i \in 1..Len(requested') : requested'[i] = start_page + i - 1
          /\ requested # <<>> =>
                /\ page = requested[Len(requested)] + 1
                /\ checkpoint_file[checkpoint_path(gender)] =
                      Written(CheckpointData(gender, page - 1, all_players))]_vars

\* The second page of a call has been requested and parsed, after the
\* checkpoint of the first one was written.
C31_Witness ==
    /\ pc = "save"
    /\ requested = <<1, 2>>
    /\ checkpoint_file[checkpoint_path(gender)].kind = "full"
    /\ JsonLoad(checkpoint_file[checkpoint_path(gender)].doc).last_page = 1

\* ------------------------------------------------------------------- C32
\* C32 as stated: the User-Agent of the requests of one process advances by
\* one entry of the pool per request, in round-robin order, so that two
\* consecutive requests never carry the same User-Agent, a get_rankings
\* request followed by the scrape_rankings_html request included.
C32_AsStated ==
    \A i \in 1..(Len(sent) - 1) :
        /\ sent[i + 1].agent # sent[i].agent
        /\ \E c \in 1..Len(USER_AGENTS) :
              sent[i].agent = NextAgent(c) /\ sent[i + 1].agent = NextAgent(Advanced(c))

\* ------------------------------------------------------------------- C33
\* C33: every checkpoint get_rankings leaves in a slot has total_players
\* equal to the length of players and gender equal to the key of the slot;
\* and when save_checkpoint has returned in a call, the checkpoint of the
\* gender holds the records accumulated so far, ending with those of the page
\* parsed last, and its last_page is the number of that page, the last and
\* highest page requested in the call; this still holds when the loop has
\* moved on to the next page.
C33_CheckpointDescribesRun ==
    /\ \A g \in Genders :
          checkpoint_file[checkpoint_path(g)].kind = "full" =>
              LET d == JsonLoad(checkpoint_file[checkpoint_path(g)].doc)
              IN  /\ d.total_players = Len(d.players)
                  /\ d.gender = g
    /\ (pc = "decide" \/ (pc = "loop" /\ requested # <<>>)) =>
          /\ checkpoint_file[checkpoint_path(gender)].kind = "full"
          /\ LET d == JsonLoad(checkpoint_file[checkpoint_path(gender)].doc)
                 n == Len(d.players)
             IN  /\ d.last_page = requested[Len(requested)]
                 /\ d.last_page = (IF pc = "decide" THEN page ELSE page - 1)
                 /\ \A i \in 1..Len(requested) : requested[i] <= d.last_page
                 /\ d.players = all_players
                 /\ n >= Len(parsed_players)
                 /\ SubSeq(d.players, n - Len(parsed_players) + 1, n) = parsed_players

\* save_checkpoint has returned after the second page of a call.
C33_Witness ==
    /\ pc = "decide"
    /\ requested = <<1, 2>>
    /\ checkpoint_file[checkpoint_path(gender)].kind = "full"
    /\ JsonLoad(checkpoint_file[checkpoint_path(gender)].doc).last_page = 2
    /\ JsonLoad(checkpoint_file[checkpoint_path(gender)].doc).total_players > PageSize

\* ------------------------------------------------------------------- C34
\* C34: within one get_rankings call the checkpoint only grows.  When
\* save_checkpoint is entered for a page that is not the first one requested
\* in the call, the slot holds the checkpoint of the save before: its
\* last_page is one below the page being saved and its players are a prefix
\* of the records being saved; and what save_checkpoint then writes is the
\* checkpoint of that page with exactly those records.
C34_CheckpointOnlyGrows ==
    [][/\ (pc = "save" /\ pc' = "dump" /\ Len(requested) >= 2) =>
             /\ checkpoint_file[checkpoint_path(gender)].kind = "full"
             /\ LET before == JsonLoad(checkpoint_file[checkpoint_path(gender)].doc)
                IN  /\ page = before.last_page + 1
                    /\ Len(before.players) <= Len(all_players)
                    /\ SubSeq(all_players, 1, Len(before.players)) = before.players
       /\ (pc = "dump" /\ pc' = "decide") =>
             /\ checkpoint_file'[checkpoint_path(gender)] =
                   Written(CheckpointData(gender, page, all_players))
             /\ all_players' = all_players
             /\ page' = page]_vars

\* The second save of a call has completed: the checkpoint holds two full
\* pages, the first of which the save before had written.
C34_Witness ==
    /\ pc = "decide"
    /\ Len(requested) = 2
    /\ checkpoint_file[checkpoint_path(gender)].kind = "full"
    /\ Len(JsonLoad(checkpoint_file[checkpoint_path(gender)].doc).players) = 2 * PageSize

\* ------------------------------------------------------------------- C35
\* C35 as stated: when a get_rankings call made with resume=False has ended
\* with an error, the slot of its gender holds no complete checkpoint, or the
\* checkpoint holds exactly the records of the pages fetched by this call, so
\* that nothing older than the call is left for a later resume=True call.
C35_AsStated ==
    (pc = "raised" /\ ~resume) =>
        \/ checkpoint_file[checkpoint_path(gender)].kind # "full"
        \/ JsonLoad(checkpoint_file[checkpoint_path(gender)].doc).players = all_players

\* ------------------------------------------------------------------- C36
\* C36 as stated: against a source that does not change, a get_rankings call
\* without page cap that resumes from a checkpoint returns every record of
\* the source exactly once and in source order, whatever its page_size is
\* and whatever the page_size of the run that wrote the checkpoint was.
C36_AsStated ==
    (pc = "returned" /\ resume /\ checkpoint # None /\ max_pages = None) =>
        result = [i \in 1..SourceRecords |-> Player(i)]

\* ------------------------------------------------------------------- C37
\* C37 as stated: a get_rankings call with max_pages = N >= 1, with resume
\* true or false and whatever checkpoint is in the slot, issues at most N
\* requests and returns at most N * page_size records (no page of the source
\* carries more than page_size items).
C37_AsStated ==
    (max_pages # None /\ max_pages # Some(0)) =>
        /\ Len(requested) <= max_pages[1]
        /\ pc = "returned" => Len(result) <= max_pages[1] * page_size

\* C37: a get_rankings call with max_pages = N >= 1 requests no page above N
\* and so issues at most N requests; it returns its seed (the records of the
\* checkpoint it resumed from, if any) followed by at most page_size records
\* per request, hence at most N * page_size records when it started at page
\* 1.  A call seeded from a checkpoint is not bounded by N * page_size: the
\* seed may cover pages above N.
C37_CapBoundsRequests ==
    (max_pages # None /\ max_pages # Some(0)) =>
        /\ Len(requested) <= max_pages[1]
        /\ \A i \in 1..Len(requested) : requested[i] <= max_pages[1]
        /\ Len(all_players) <=
              Len(SeedPlayers(resume, checkpoint)) + Len(requested) * page_size
        /\ pc = "returned" =>
              /\ Len(result) <=
                    Len(SeedPlayers(resume, checkpoint)) + Len(requested) * page_size
              /\ start_page = 1 => Len(result) <= max_pages[1] * page_size

\* A call with max_pages = 1 has requested page 1, received a full page with
\* hasMore true, stopped at the cap and returned the page.
C37_Witness ==
    /\ pc = "returned"
    /\ max_pages = Some(1)
    /\ requested = <<1>>
    /\ has_more
    /\ page = 2
    /\ Len(result) = page_size

\* ------------------------------------------------------------------- C38
\* A call is in progress; it has ended (DONE or FAILED); it is about to
\* request a page beyond the highest page of the model, which takes a source
\* that has answered every request of the call with a full page and hasMore
\* true, and no page cap.
Running == pc \in {"loop", "save", "dump", "decide", "clear"}
Done == pc \in {"returned", "raised"}
Beyond ==
    /\ pc = "loop"
    /\ page > MaxPage
    /\ max_pages \in {None, Some(0)}
    /\ requested # <<>> =>
          /\ has_more
          /\ Len(parsed_players) = page_size
          /\ error = "none"

\* C38: get_rankings terminates, by returning or by raising, whenever a page
\* cap N >= 1 is set, and otherwise unless the source keeps answering with
\* full pages and hasMore true without an error; and every iteration of the
\* loop that does not stop has issued exactly one request, for the current
\* page, and raises the page number by one.
C38_Terminates ==
    /\ (Running /\ max_pages \notin {None, Some(0)}) ~> Done
    /\ Running ~> (Done \/ Beyond)
    /\ [][(pc = "decide" /\ pc' = "loop") =>
             /\ page' = page + 1
             /\ requested' = requested
             /\ Len(requested) = page - start_page + 1
             /\ requested[Len(requested)] = page]_vars

\* A call with max_pages = 2 was answered two full pages with hasMore true,
\* stopped at the cap and returned.
C38_Witness ==
    /\ pc = "returned"
    /\ max_pages = Some(2)
    /\ requested = <<1, 2>>
    /\ has_more
    /\ page = 3
    /\ Len(result) = 2 * page_size

\* ------------------------------------------------------------------- C39
\* C39 as stated: for every gender a command-line run has counted as
\* successful, the run has written an output file of that gender that holds
\* at least one record.
C39_AsStated ==
    \A i \in 1..Len(turns) :
        turns[i].path # "failed" =>
            \E f \in exported :
                /\ f.name \in {OutputFile(turns[i].gender), FallbackFile(turns[i].gender)}
                /\ f.rows # <<>>

====
